---- MODULE Spec2Model ----
(***************************************************************************)
(* A model of the circuit and stream layers of tor-go.                     *)
(*                                                                         *)
(* Circuit layer (package circuit): tasks call SendRelay, SendRelayEarly,  *)
(* Extend, Destroy and ReceiveRelay on one circuit.  The circuit holds the *)
(* two mutexes wmu and rmu, the hops with their cipher positions and       *)
(* running digests, and the RELAY_EARLY counter.  The link is the sequence *)
(* of cells written (linkOut) and the cells the relays send back.          *)
(*                                                                         *)
(* A cipher stream (AES-CTR) is modelled by its position, counted in       *)
(* cells: XORing with the keystream segment at position p is undone only   *)
(* by XORing with the same segment.  A running hash (SHA-1 / SHA3) is      *)
(* modelled by the sequence of blocks it has absorbed; Sum4 folds that     *)
(* sequence into the 32 bits that the relay header carries.                *)
(***************************************************************************)
EXTENDS Integers, Sequences, FiniteSets, Bags, TLC

\* ------------------------------------------------------------------ bounds
NumTasks == 2        \* tasks that call into one circuit concurrently
MaxCalls == 3        \* calls made on the circuit in one run
MaxEarlyCalls == 8   \* SendRelayEarly calls that open an early-heavy run
MaxEarlyMixed == 2   \* the other calls made in an early-heavy run
MaxRecvCalls == 3    \* calls made in a receive-heavy run
MaxInbound == 2      \* cells the relays send back in a receive-heavy run
MaxInboundW == 1     \* cells the relays send back in the other runs
MaxChunks == 2       \* whole chunks of MaxRelayDataLen bytes in the longest buffer of one Write
MaxDataIn == 101     \* RELAY_DATA cells for the stream in a receive-heavy run
MaxSendmeIn == 1     \* SENDME cells of either level that arrive in one run
SentBefore == 400    \* RELAY_DATA cells the stream of a send-heavy run has sent before
MaxDataInSendme == 50  \* RELAY_DATA cells for the stream in a run with two receivers
MaxBeginCalls == 2   \* Begin calls made on the circuit in one run
MaxElsewhere == 1    \* bursts of Begin calls made on other circuits in one run
MaxCreates == 2      \* Create calls made on the link in one run
MaxIntroPoints == 2  \* introduction points in the descriptor of an onion service
ScalarLen == 2       \* bytes of a private scalar (32 in the program)
MaxScalarByte == 3   \* the largest value of one of its bytes (255 in the program)
MaxReads == 2        \* cells read from one connection in a run of the cell reader
MaxRelays == 6       \* relays in the consensus given to SelectHSDirs
MaxTurns == 8        \* turns of SelectHSDirs' inner loop followed for one replica
MaxStreams == 3      \* streams opened on one circuit in a run of several streams
BurstChunks == 50    \* chunks of MaxRelayDataLen bytes in the buffer of one Write of such a run

\* ------------------------------------------------------- program constants
MaxRelayEarly == 8
MaxClaimAttempts == 16
RelayPayloadLen == 509
relayDataOff == 11
MaxRelayDataLen == RelayPayloadLen - relayDataOff

CmdPadding == 0
CmdRelay == 3
CmdDestroy == 4
CmdRelayEarly == 9
CmdVersions == 7
CmdNetInfo == 8
CmdCreate2 == 10
CmdCreated2 == 11
CmdVPadding == 128
CmdCerts == 129
CmdAuthChallenge == 130
CmdAuthenticate == 131

\* readExpectedCell gives up after this many cells.
MaxExpectedReads == 100
FixedCellLen == 514
MaxVarPayloadLen == 10000
hsdirNReplicas == 2
hsdirSpreadFetch == 3

\* The deadline of Handshake and of Create, in seconds; NoDeadline is the
\* zero time.Time that clears it.
DeadlineSeconds == 30
NoDeadline == 0

RelayBegin == 1
RelayData == 2
RelayEnd == 3
RelayConnected == 4
RelaySendMe == 5
RelayExtend2 == 14
RelayExtended2 == 15
RelayEstablishRendezvous == 33
RelayIntroduce1 == 34
RelayRendezvous2 == 37
RelayRendezvousEstablished == 39
RelayIntroduceAck == 40

\* Flow control (package stream).  Begin and Read spell the same numbers out.
circSendMeWindow == 100
streamSendMeWindow == 50
initCircWindow == 1000
initStreamWindow == 500
sendMeV1Len == 23
MaxStreamID == 65535

\* The zero value of a sync.Mutex is an unlocked mutex.
Unlocked == 0

Tasks == 1 .. NumTasks

VARIABLES
    pc,              \* pc[t]: where task t stands in the call it is making
    wmu,             \* Circuit.wmu: the task holding it, or Unlocked
    rmu,             \* Circuit.rmu: the task holding it, or Unlocked
    Hops,            \* Circuit.Hops: per hop kf, kb (positions), df, db (blocks)
    RelayEarlySent,  \* Circuit.RelayEarlySent
    outCell,         \* outCell[t]: the cell task t has built and not yet written
    inCell,          \* inCell[t]: the cell task t has read and not yet handled
    ret,             \* ret[t]: what ReceiveRelay returned to Extend in task t
    refused,         \* history: calls refused with "RELAY_EARLY budget exhausted"
    linkOut,         \* cells written to Link.Writer, in order
    linkBroken,      \* the connection has failed: every later write fails
    relays,          \* the relays' side of each hop: kb position and db blocks
    inboundSeen,     \* cells the relays have sent so far
    inboundCap,      \* cells the relays send at most in this run
    callsLeft,       \* calls the application may still start
    earlyLeft,       \* opening SendRelayEarly calls of an early-heavy run to come
    encLog,          \* history: blocks absorbed by encryptRelayLocked, in order
    readLog,         \* history: RELAY cells in the order ReadCell returned them
    decLog,          \* history: RELAY cells in the order they were decrypted
    unlocked,        \* history: operations that wrote or mutated without wmu
    falseZeroAt,     \* history: hops of the last decrypted cell that saw a
                     \* zero "recognized" field with a digest that did not match
    lateRecv         \* history: tasks whose ReceiveRelay under way began after
                     \* Destroy had written its DESTROY cell

\* The circuit without the state of its connection.
circuitQuiet == <<pc, wmu, rmu, Hops, RelayEarlySent, outCell, inCell, ret,
                  refused, linkOut, relays, inboundSeen, inboundCap, callsLeft,
                  earlyLeft, encLog, readLog, decLog, unlocked, falseZeroAt,
                  lateRecv>>

circuitVars == <<circuitQuiet, linkBroken>>

\* One stream on the circuit, as Begin returned it, used by a task that calls
\* Write and Close and a task that calls Read.  The stream specifications
\* see the circuit through what SendRelay and ReceiveRelay return.
VARIABLES
    CircWindow,          \* Stream.CircWindow
    StreamWindow,        \* Stream.StreamWindow
    buf,                 \* Stream.buf: the number of bytes it holds
    closed,              \* Stream.closed
    eof,                 \* Stream.eof
    circDataReceived,    \* Stream.circDataReceived
    streamDataReceived,  \* Stream.streamDataReceived
    wpc,                 \* the writing task: "idle", or "writing" inside Write
    wleft,               \* len(p) inside the Write under way: the bytes of the
                         \* caller's buffer that it has still to send
    wsize,               \* len(p) when the Write under way or the last one was
                         \* called
    wtotal,              \* total of that Write: the count it returns
    wlog,                \* history: offset in the caller's buffer and length
                         \* of each chunk that Write has sent
    wret,                \* the error the last Write returned ("": none)
    rpc,                 \* the reading task: "idle", or "reading" inside Read
    rsize,               \* len(p) of the Read under way
    rret,                \* the error of the Read under way or of the last one
                         \* ("": none so far)
    dataSent,            \* history: RELAY_DATA cells sent by Write
    endSent,             \* history: RELAY_END cells sent by Close
    endLog,              \* history: command, stream id and data of each of them
    closeRet,            \* the error the last Close returned ("": nil)
    circSendmeOut,       \* history: circuit-level SENDMEs sent
    streamSendmeOut,     \* history: stream-level SENDMEs sent
    sendmeFailed,        \* history: a SENDME could not be sent
    dataIn,              \* history: RELAY_DATA cells received for the stream
    circSendmeIn,        \* history: circuit-level SENDMEs received
    streamSendmeIn,      \* history: stream-level SENDMEs received
    dataInCap,           \* RELAY_DATA cells that arrive at most in this run
    sendmeCap,           \* SENDMEs of either level that arrive at most
    wlens,               \* the buffer lengths Write is called with in this run
    wheld,               \* the window Write has read for its decrement and not
                         \* yet written back (0 outside a decrement)
    trigger,             \* history: the last hop's db right after ReceiveRelay
                         \* absorbed the RELAY_DATA cell Read is handling
    sendmeDigest,        \* handleDataReceived's digest (BackwardDigest's result)
    rdata,               \* len(data) of the RELAY_DATA cell Read is handling
    sendmeLog,           \* history: level, digest and trigger of each SENDME sent
    retCell,             \* history: the RELAY_DATA cell (numbered in arrival
                         \* order) that the bytes Read returned last came from
    pending,             \* history: bytes of that cell not yet returned
    bufCell,             \* history: the RELAY_DATA cell whose rest s.buf holds
    nextStreamID,        \* the process-wide counter nextStreamID
    live,                \* the ids of the circuit's live streams (a bag: a
                         \* stream is live from its Begin's return)
    droppedLive,         \* history: ids of live streams a cell of which was
                         \* pulled from the circuit and discarded
    bpc,                 \* per task: "idle", or its place inside Begin
    bid,                 \* per task: id of the Begin under way
    bret,                \* per task: what its last Begin returned: the stream,
                         \* the error ("": nil) and the reason the error names
    firstReply,          \* history, per task: the first relay cell with the id
                         \* of its Begin that ReceiveRelay returned to anyone
                         \* after RELAY_BEGIN was sent
    beginsLeft,          \* Begin calls the run may still make
    elsewhereLeft        \* bursts of Begin calls on other circuits still to come

streamVars == <<CircWindow, StreamWindow, buf, closed, eof, circDataReceived,
                streamDataReceived, wpc, wleft, wsize, wtotal, wlog, wret, rpc, rsize, rret,
                dataSent, endSent, endLog, closeRet, circSendmeOut, streamSendmeOut, sendmeFailed, dataIn,
                circSendmeIn, streamSendmeIn, dataInCap, sendmeCap, wlens, wheld,
                trigger, sendmeDigest, rdata, sendmeLog,
                retCell, pending, bufCell, nextStreamID, live, droppedLive,
                bpc, bid, bret, firstReply, beginsLeft, elsewhereLeft>>

\* ------------------------------------------------- the link's circuit ids
VARIABLES
    CircIDs,         \* Link.CircIDs: the circuit ids claimed on the link
    cpc,             \* the task calling Create: "idle", or its place inside
    circID,          \* Create's circID
    attempts,        \* Create's attempts
    createErr,       \* the error the last Create returned ("": a circuit)
    circuits,        \* ids of the circuits Create has returned
    createsLeft,     \* Create calls the run may still make
    deadline         \* the deadline armed on the link's connection, in
                     \* seconds from its arming (0: none, the zero time.Time)

linkVars == <<CircIDs, cpc, circID, attempts, createErr, circuits, createsLeft,
              deadline>>

\* ------------------------------------------ the onion-service connect
\* One call of ConnectOnionService: its place, the circuits it has built
\* through the CircuitBuilder and their links, and what it has received.
VARIABLES
    opc,             \* "idle", the place inside ConnectOnionService, "returned"
    IntroPoints,     \* len(result.IntroPoints)
    ipIdx,           \* ipIdx of the loop over result.IntroPoints
    lastIntroErr,    \* lastIntroErr ("": nil)
    rendLink,        \* rendBuilt.LinkCloser: "none" before BuildCircuit, then
                     \* "open" or "closed"
    rendHops,        \* len(rendBuilt.Circuit.Hops), 0 before BuildCircuit
    introLinks,      \* introBuilt.LinkCloser of every intro circuit built, in
                     \* the order of building: "open" or "closed"
    ackCell,         \* what ReceiveRelay returned on the intro circuit in the
                     \* attempt under way: relayCmd and ackData
    rend2Cell,       \* what ReceiveRelay returned on the rendezvous circuit in
                     \* the attempt under way: relayCmd and rend2Data
    oret,            \* what ConnectOnionService returned: "" (not yet), "ok"
                     \* (the stream) or the error
    streamOpen,      \* the returned onionStream has not been closed
    tried,           \* history: the ipIdx of each tryIntroPoint call, in order
    triedErr,        \* history: the error each of them returned ("": nil)
    verified,        \* history: CompleteRendezvous accepted rend2Data in the
                     \* attempt under way
    beginHops,       \* history: len(Hops) of the rendezvous circuit when
                     \* stream.Begin was called on it (0: not called)
    connectsLeft     \* ConnectOnionService calls the run may still make

onionVars == <<opc, IntroPoints, ipIdx, lastIntroErr, rendLink, rendHops,
               introLinks, ackCell, rend2Cell, oret, streamOpen, tried,
               triedErr, verified, beginHops, connectsLeft>>

\* ------------------------------------------------- the link handshake
\* One call of link.Handshake on a fresh connection.
VARIABLES
    hpc,             \* "idle", the place inside Handshake, "returned"
    conn,            \* the TLS connection: "none", "open" or "closed"
    negotiated,      \* Handshake's negotiated (0 before VERSIONS)
    padSkipped,      \* i of readExpectedCell's loop
    hrecv,           \* history: commands of the cells read after VERSIONS that
                     \* are neither PADDING nor VPADDING, in order
    hsent,           \* history: commands of the cells written, in order
    hret,            \* what Handshake returned: "" (not yet), "ok" (the Link)
                     \* or the error
    handshakesLeft   \* Handshake calls the run may still make

handshakeVars == <<hpc, conn, negotiated, padSkipped, hrecv, hsent, hret,
                   handshakesLeft>>

\* ------------------------------------------------ the ntor handshakes
\* One ntor HandshakeState and one HsNtorClientState, each completed once.
VARIABLES
    hs_x,            \* HandshakeState.x, the ephemeral private scalar
    completeRet,     \* what hs.Complete returned: "" (not called), "ok" (the
                     \* KeyMaterial) or the error
    state_x,         \* HsNtorClientState.x
    hsCompleteRet,   \* what HsNtorClientCompleteHandshake returned, likewise
    completesLeft    \* calls of either the run may still make

ntorVars == <<hs_x, completeRet, state_x, hsCompleteRet, completesLeft>>

\* ------------------------------------------------------ the cell reader
\* One cell.Reader on a connection of its own.
VARIABLES
    rdRet,           \* what the last ReadCell or ReadVersionsCell was given
                     \* and what it did
    readsLeft        \* calls of either the run may still make

readerVars == <<rdRet, readsLeft>>

\* --------------------------------------------------------- SelectHSDirs
\* One call of SelectHSDirs.  A relay is named by its place in
\* consensus.Relays, as the code names it by its address.
VARIABLES
    hdpc,            \* "idle", or "scan" at the head of the inner loop
    consensus,       \* consensus.Relays
    svcIdx,          \* per replica: serviceIndex(blindedKey, replica, ...)
    ring,            \* ring, once sorted: the relays in the order of their index
    replica,         \* replica
    start,           \* start
    count,           \* count
    offset,          \* offset
    selected,        \* the keys of the map selected
    result,          \* result
    hdRet,           \* what the last call returned
    selectsLeft      \* calls the run may still make

hsdirVars == <<hdpc, consensus, svcIdx, ring, replica, start, count, offset,
               selected, result, hdRet, selectsLeft>>

\* ------------------------------------------- the streams of one circuit
\* The streams that Begin has returned on one circuit, each written and
\* read by its own caller.
VARIABLES
    streams,         \* the Streams returned, in the order of their Begin
    circCells,       \* history: RELAY_DATA cells sent on the circuit
    circSendmes,     \* history: circuit-level SENDMEs received on it
    streamSendmes,   \* history: stream-level SENDMEs received on it
    streamsLeft      \* Begin calls the run may still make

muxVars == <<streams, circCells, circSendmes, streamSendmes, streamsLeft>>

\* The parts that work on inputs of their own.
apartVars == <<readerVars, hsdirVars, muxVars>>

\* The variables of the parts of the program that stand beside the circuit,
\* the stream and the link's circuit ids.
restVars == <<onionVars, handshakeVars, ntorVars, apartVars>>

\* What stands beside each of these parts.
besideOnion == <<handshakeVars, ntorVars, apartVars>>

besideHandshake == <<onionVars, ntorVars, apartVars>>

besideNtor == <<onionVars, handshakeVars, apartVars>>

vars == <<circuitVars, streamVars, linkVars, restVars>>

\* ------------------------------------------------------------ pure helpers
\* The digest values of the model: TLC's integers are 32 bits wide, so the
\* four digest bytes are folded into 24 bits.
DigestMod == 2 ^ 24

RECURSIVE Sum4Fold(_, _)
Sum4Fold(blocks, h) ==
    IF blocks = << >> THEN h
    ELSE Sum4Fold(Tail(blocks), ((h * 33) + (Head(blocks) % DigestMod)) % DigestMod)

\* hash.Sum(nil)[:4]: the first four bytes of the hash of everything absorbed.
Sum4(blocks) == Sum4Fold(blocks, 5381)

\* The 509-byte relay payload with its digest field zeroed, as one block.
PayloadBlock(relayCmd, streamID, dlen) ==
    (relayCmd * 65536 + streamID) * 512 + dlen

\* initHop: df and db are seeded with Df and Db of the hop's key material.
SeedDf(i) == 1000000 + 2 * i
SeedDb(i) == 1000001 + 2 * i

initHop(i) == [kf |-> 0, kb |-> 0, df |-> <<SeedDf(i)>>, db |-> <<SeedDb(i)>>]

\* The relay's half of a hop's backward state.
initRelay(i) == [kb |-> 0, db |-> <<SeedDb(i)>>]

NoCell == [cmd |-> -1]

\* The ciphertext that results from clobbering the digest field of a cell
\* that is still encrypted: the later layers no longer decrypt it to the
\* digest the relay wrote.
Clobbered(digest) == (digest + 1) % DigestMod

\* What a hash absorbs when the payload is not a plaintext (a layer is
\* still on it, or its keystream segment was the wrong one).
GarbageBlock(id, i) == 2000000 + 16 * id + i

StreamIDs == {1}
DataLens == {MaxRelayDataLen, MaxRelayDataLen + 1}

\* buildExtend2Payload: NSPEC + IPv4 spec + RSA spec + HTYPE + HLEN + HDATA.
Extend2Len == 1 + 8 + 22 + 2 + 2 + 84

NoRet == [err |-> "", hop |-> 0, relayCmd |-> 0, streamID |-> 0, dlen |-> 0,
          reason |-> 0]
ErrRet(e) == [NoRet EXCEPT !.err = e]

\* -------------------------------------------------- encryptRelayLocked
EncryptCell(hops, relayCmd, streamID, dlen) ==
    LET n == Len(hops)
        df2 == Append(hops[n].df, PayloadBlock(relayCmd, streamID, dlen))
    IN  [cmd |-> CmdRelay, relayCmd |-> relayCmd, streamID |-> streamID,
         dlen |-> dlen, hop |-> n, digest |-> Sum4(df2),
         ks |-> [i \in 1 .. n |-> hops[i].kf]]

EncryptHops(hops, relayCmd, streamID, dlen) ==
    LET n == Len(hops)
    IN  [i \in 1 .. n |->
            [hops[i] EXCEPT
                !.kf = @ + 1,
                !.df = IF i = n
                       THEN Append(@, PayloadBlock(relayCmd, streamID, dlen))
                       ELSE @]]

encryptRelayLocked(hops, relayCmd, streamID, dlen) ==
    IF Len(hops) = 0
    THEN [err |-> "circuit has no hops", hops |-> hops, cell |-> NoCell]
    ELSE IF dlen > MaxRelayDataLen
    THEN [err |-> "relay data too large", hops |-> hops, cell |-> NoCell]
    ELSE [err |-> "",
          hops |-> EncryptHops(hops, relayCmd, streamID, dlen),
          cell |-> EncryptCell(hops, relayCmd, streamID, dlen)]

\* The history entry of one encryption: the hop whose df absorbed the block.
EncEntry(hops, relayCmd, streamID, dlen) ==
    [hop |-> Len(hops), block |-> PayloadBlock(relayCmd, streamID, dlen)]

\* A SendRelay that gave c.wmu up between encryptRelayLocked and WriteCell.
WriteLockDropped(t) == Unlocked

\* c.wmu.Lock() by task t: t holds the mutex until its c.wmu.Unlock().
WriteLocked(t) == t

\* A ReceiveRelay that gave c.rmu up between ReadCell and decryptRelayLocked.
ReadLockDropped(t) == Unlocked

\* c.rmu.Lock() by task t: t holds the mutex until its c.rmu.Unlock().
ReadLocked(t) == t

\* cell.NewFixedCell(c.ID, cell.CmdRelayEarly) with a copied payload.
AsRelayEarly(c) == [c EXCEPT !.cmd = CmdRelayEarly]

\* A fixed cell whose payload is not a relay cell built by this circuit.
PlainCell(cmd) ==
    [cmd |-> cmd, relayCmd |-> 0, streamID |-> 0, dlen |-> 0, hop |-> 0,
     digest |-> 0, ks |-> << >>]

\* A budget check that lets a ninth cell through.
BudgetExhaustedOffByOne(sent) == sent > MaxRelayEarly

\* RELAY_EARLY budget check of SendRelayEarly and Extend.
BudgetExhausted(sent) == sent >= MaxRelayEarly

\* Writer.WriteCell: the cell reaches the link, or the write fails and the
\* connection is broken from then on.
WriteOutcomes == IF linkBroken THEN {FALSE} ELSE {TRUE, FALSE}

WriteCell(c, seq, ok) ==
    /\ linkOut' = IF ok
                  THEN Append(linkOut, [cell |-> c, seq |-> seq])
                  ELSE linkOut
    /\ linkBroken' = (linkBroken \/ ~ok)

\* History: a write to the link or a mutation of kf, df, RelayEarlySent
\* made by a task that does not hold wmu.
NoteWrite(t, what) ==
    unlocked' = IF wmu = t THEN unlocked ELSE unlocked \cup {what}

\* -------------------------------------------------- decryptRelayLocked
\* The payload after hops 1..i have removed their layers is the relay's
\* plaintext exactly when hop i built the cell and every layer was removed
\* with the keystream segment the relay used.
InSync(hops, c, i) ==
    /\ i <= Len(c.ks)
    /\ \A k \in 1 .. i : c.ks[k] = hops[k].kb

IsPlain(hops, c, i) == ~c.corrupt /\ c.origin = i /\ InSync(hops, c, i)

\* binary.BigEndian.Uint16(payload[relayRecognizedOff:]) = 0 at hop i: the
\* plaintext carries zero there; a ciphertext does so only by coincidence.
RecognizedZero(hops, c, i) == IsPlain(hops, c, i) \/ i \in c.zeroAt

\* The bytes 5..8 found at hop i (savedDigest).
SavedDigest(c, clobbered) == IF clobbered THEN Clobbered(c.digest) ELSE c.digest

\* The payload with its digest field zeroed, as hop i's db absorbs it.
SeenBlock(hops, c, i) ==
    IF IsPlain(hops, c, i)
    THEN PayloadBlock(c.relayCmd, c.streamID, c.dlen)
    ELSE GarbageBlock(c.id, i)

\* A decryptRelayLocked that kept the digest it had written to.
KeepWritten(snapshot, written) == written

\* hop.db.UnmarshalBinary(dbState): the digest is put back to the snapshot.
RestoreDb(snapshot, written) == snapshot

RECURSIVE DecryptFrom(_, _, _, _, _)
DecryptFrom(hops0, hops, c, i, clobbered) ==
    IF i > Len(hops)
    THEN [hops |-> hops, ret |-> ErrRet("relay cell not recognized at any hop")]
    ELSE
    LET peeled == [hops EXCEPT ![i].kb = @ + 1]
        dbState == hops[i].db
        written == Append(dbState, SeenBlock(hops0, c, i))
        matches == /\ IsPlain(hops0, c, i)
                   /\ SavedDigest(c, clobbered) = Sum4(written)
    IN  IF ~RecognizedZero(hops0, c, i)
        THEN DecryptFrom(hops0, peeled, c, i + 1, clobbered)
        ELSE IF matches
        THEN IF c.dlen > MaxRelayDataLen
             THEN [hops |-> [peeled EXCEPT ![i].db = written],
                   ret |-> ErrRet("relay data length exceeds maximum")]
             ELSE [hops |-> [peeled EXCEPT ![i].db = written],
                   ret |-> [err |-> "", hop |-> i, relayCmd |-> c.relayCmd,
                            streamID |-> c.streamID, dlen |-> c.dlen,
                            reason |-> 0]]
        ELSE DecryptFrom(hops0,
                         [peeled EXCEPT ![i].db = RestoreDb(dbState, written)],
                         c, i + 1, TRUE)

decryptRelayLocked(hops, c) ==
    IF Len(hops) = 0
    THEN [hops |-> hops, ret |-> ErrRet("circuit has no hops")]
    ELSE DecryptFrom(hops, hops, c, 1, FALSE)

\* ------------------------------------------------- the relays' side
\* The relay messages that arrive: <<relay command, stream id, data length>>.
\* An EXTENDED2 carries HLEN(2) + HDATA(64), or is cut short.
InMessages == {<<RelayData, 1, 1>>, <<RelayExtended2, 0, 1>>, <<RelayExtended2, 0, 66>>}

\* The hops at which decryptRelayLocked finds a zero "recognized" field on a
\* payload that is not (yet) the relay's plaintext.
FalseZeroHops(hops, c) ==
    {i \in 1 .. Len(hops) :
        /\ i \in c.zeroAt
        /\ \A k \in 1 .. i : ~IsPlain(hops, c, k)}

\* A cell built by the relay of hop j, as it arrives after hops j..1 have
\* each added their layer; zeroAt are the hops at which the still encrypted
\* payload happens to show a zero "recognized" field.
RelayCellFrom(j, relayCmd, streamID, dlen, zeroAt, id) ==
    [cmd |-> CmdRelay, origin |-> j, corrupt |-> FALSE, relayCmd |-> relayCmd,
     streamID |-> streamID, dlen |-> dlen,
     digest |-> Sum4(Append(relays[j].db, PayloadBlock(relayCmd, streamID, dlen))),
     ks |-> [i \in 1 .. j |-> relays[i].kb], zeroAt |-> zeroAt, id |-> id]

RelaysAfter(j, relayCmd, streamID, dlen) ==
    [i \in 1 .. Len(relays) |->
        IF i > j THEN relays[i]
        ELSE [kb |-> relays[i].kb + 1,
              db |-> IF i = j
                     THEN Append(relays[i].db, PayloadBlock(relayCmd, streamID, dlen))
                     ELSE relays[i].db]]

\* A RELAY cell that passed hops j..1 and is no plaintext under any layer
\* (it was not built by a hop of this circuit, or was damaged on the way).
CorruptCellFrom(j, zeroAt, id) ==
    [cmd |-> CmdRelay, origin |-> j, corrupt |-> TRUE, relayCmd |-> 0,
     streamID |-> 0, dlen |-> 0, digest |-> 0,
     ks |-> [i \in 1 .. j |-> relays[i].kb], zeroAt |-> zeroAt, id |-> id]

\* The relays' keystreams after a cell passed hops j..1 that no hop's db
\* absorbed.
RelaysAfterCorrupt(j) ==
    [i \in 1 .. Len(relays) |->
        IF i > j THEN relays[i] ELSE [relays[i] EXCEPT !.kb = @ + 1]]

\* A cell that is not a RELAY cell.
LinkCell(cmd, id) ==
    [cmd |-> cmd, origin |-> 0, corrupt |-> FALSE, relayCmd |-> 0,
     streamID |-> 0, dlen |-> 0, digest |-> 0, ks |-> << >>, zeroAt |-> {},
     id |-> id]

\* A ReceiveRelay that lost the reason byte of the DESTROY cell.
DestroyedNoReason(reason) == ErrRet("circuit destroyed by relay")

\* ReceiveRelay's error for a DESTROY cell with reason byte payload[0].
DestroyedRet(reason) == [ErrRet("circuit destroyed by relay") EXCEPT !.reason = reason]

\* Circuit.ReceiveRelay's switch on the command of the cell it read: loop
\* again on PADDING, else the hops afterwards and what is returned.
ReceiveRelayResult(hops, c) ==
    IF c.cmd = CmdPadding
    THEN [loop |-> TRUE, hops |-> hops, ret |-> NoRet]
    ELSE IF c.cmd = CmdDestroy
    THEN [loop |-> FALSE, hops |-> hops, ret |-> DestroyedRet(c.reason)]
    ELSE IF c.cmd \in {CmdRelay, CmdRelayEarly}
    THEN LET d == decryptRelayLocked(hops, c)
         IN  [loop |-> FALSE, hops |-> d.hops, ret |-> d.ret]
    ELSE [loop |-> FALSE, hops |-> hops,
          ret |-> ErrRet("unexpected cell command on circuit")]

\* Destroy has written its DESTROY cell to the link.
DestroySent == \E i \in 1 .. Len(linkOut) : linkOut[i].cell.cmd = CmdDestroy

\* A ReceiveRelay begins: was DESTROY sent before?
RecvBegins(t) ==
    lateRecv' = IF DestroySent THEN lateRecv \cup {t} ELSE lateRecv

\* The reason bytes of the DESTROY cells a relay sends.
DestroyReasons == {0, 1}

\* A DESTROY cell from the relay: payload[0] is the reason.
DestroyCell(reason, id) ==
    [cmd |-> CmdDestroy, origin |-> 0, corrupt |-> FALSE, relayCmd |-> 0,
     streamID |-> 0, dlen |-> 0, digest |-> 0, ks |-> << >>, zeroAt |-> {},
     id |-> id, reason |-> reason]

NextInboundId == inboundSeen + dataIn + 1

\* ------------------------------------------------------------- actions
Idle(t) == pc[t] = "idle"

\* The application starts a call: it spends one of the calls of the run.
\* In an early-heavy run the SendRelayEarly calls that open it come first.
StartCall(t) ==
    /\ Idle(t)
    /\ earlyLeft = 0
    /\ callsLeft > 0
    /\ callsLeft' = callsLeft - 1

\* The call of task t returns to the application with error err ("": none).
Return(t, name, err) ==
    /\ pc' = [pc EXCEPT ![t] = "idle"]
    /\ ret' = [ret EXCEPT ![t] = NoRet]
    /\ refused' = IF err = "RELAY_EARLY budget exhausted"
                  THEN refused + 1 ELSE refused

Goto(t, label) ==
    /\ pc' = [pc EXCEPT ![t] = label]
    /\ UNCHANGED <<ret, refused>>

\* Circuit.SendRelay, first half: c.wmu.Lock(); encryptRelayLocked(...).
\* On an encryption error the lock is released and the error returned.
SendRelayEncrypt(t) ==
    /\ StartCall(t)
    /\ wmu = Unlocked
    /\ \E streamID \in StreamIDs, dlen \in DataLens :
        LET r == encryptRelayLocked(Hops, RelayData, streamID, dlen)
        IN  IF r.err # ""
            THEN /\ Return(t, "SendRelay", r.err)
                 /\ UNCHANGED <<wmu, Hops, outCell, encLog>>
            ELSE /\ wmu' = WriteLocked(t)
                 /\ Hops' = r.hops
                 /\ encLog' = Append(encLog, EncEntry(Hops, RelayData, streamID, dlen))
                 /\ outCell' = [outCell EXCEPT
                                  ![t] = [cell |-> r.cell, seq |-> Len(encLog) + 1]]
                 /\ Goto(t, "sr_write")
    /\ UNCHANGED <<rmu, RelayEarlySent, inCell, linkOut, linkBroken, relays,
                   inboundSeen, inboundCap, earlyLeft, readLog, decLog, unlocked, falseZeroAt>>
    /\ UNCHANGED <<streamVars, linkVars, restVars, lateRecv>>

\* Circuit.SendRelay, second half: c.Link.Writer.WriteCell(relayCell);
\* c.wmu.Unlock(); return err.
SendRelayWrite(t) ==
    /\ pc[t] = "sr_write"
    /\ \E ok \in WriteOutcomes :
        /\ WriteCell(outCell[t].cell, outCell[t].seq, ok)
        /\ Return(t, "SendRelay", IF ok THEN "" ELSE "write cell")
    /\ NoteWrite(t, "SendRelay")
    /\ wmu' = Unlocked
    /\ outCell' = [outCell EXCEPT ![t] = NoCell]
    /\ UNCHANGED <<rmu, Hops, RelayEarlySent, inCell, relays, inboundSeen, inboundCap,
                   callsLeft, earlyLeft, encLog, readLog, decLog, falseZeroAt>>
    /\ UNCHANGED <<streamVars, linkVars, restVars, lateRecv>>

\* Circuit.SendRelayEarly, first half: lock, budget check, counter increment.
SendRelayEarlyCheck(t) ==
    /\ Idle(t)
    /\ wmu = Unlocked
    /\ IF earlyLeft > 0
       THEN /\ earlyLeft' = earlyLeft - 1
            /\ UNCHANGED callsLeft
       ELSE /\ callsLeft > 0
            /\ callsLeft' = callsLeft - 1
            /\ UNCHANGED earlyLeft
    /\ IF BudgetExhausted(RelayEarlySent)
       THEN /\ Return(t, "SendRelayEarly", "RELAY_EARLY budget exhausted")
            /\ UNCHANGED <<wmu, RelayEarlySent, outCell>>
       ELSE /\ wmu' = WriteLocked(t)
            /\ RelayEarlySent' = RelayEarlySent + 1
            /\ outCell' = [outCell EXCEPT
                             ![t] = [cell |-> PlainCell(CmdRelayEarly), seq |-> 0]]
            /\ Goto(t, "sre_write")
    /\ UNCHANGED <<rmu, Hops, inCell, linkOut, linkBroken, relays, inboundSeen, inboundCap,
                   encLog, readLog, decLog, unlocked, falseZeroAt>>
    /\ UNCHANGED <<streamVars, linkVars, restVars, lateRecv>>

\* Circuit.SendRelayEarly, second half: WriteCell, then the deferred Unlock.
SendRelayEarlyWrite(t) ==
    /\ pc[t] = "sre_write"
    /\ \E ok \in WriteOutcomes :
        /\ WriteCell(outCell[t].cell, outCell[t].seq, ok)
        /\ Return(t, "SendRelayEarly", IF ok THEN "" ELSE "write cell")
    /\ NoteWrite(t, "SendRelayEarly")
    /\ wmu' = Unlocked
    /\ outCell' = [outCell EXCEPT ![t] = NoCell]
    /\ UNCHANGED <<rmu, Hops, RelayEarlySent, inCell, relays, inboundSeen, inboundCap,
                   callsLeft, earlyLeft, encLog, readLog, decLog, falseZeroAt>>
    /\ UNCHANGED <<streamVars, linkVars, restVars, lateRecv>>

\* Circuit.Destroy: the DESTROY cell is written without taking c.wmu.
Destroy(t) ==
    /\ StartCall(t)
    /\ \E ok \in WriteOutcomes :
        /\ WriteCell(PlainCell(CmdDestroy), 0, ok)
        /\ Return(t, "Destroy", IF ok THEN "" ELSE "write cell")
    /\ NoteWrite(t, "Destroy")
    /\ UNCHANGED <<wmu, rmu, Hops, RelayEarlySent, outCell, inCell, relays,
                   inboundSeen, inboundCap, earlyLeft, encLog, readLog, decLog, falseZeroAt>>
    /\ UNCHANGED <<streamVars, linkVars, restVars, lateRecv>>

\* Circuit.Extend returns before it touches the circuit: the relay's address
\* is not IPv4, or the ntor handshake cannot be set up.
ExtendInvalid(t) ==
    /\ StartCall(t)
    /\ Return(t, "Extend", "invalid IPv4 address for relay")
    /\ UNCHANGED <<wmu, rmu, Hops, RelayEarlySent, outCell, inCell, linkOut,
                   linkBroken, relays, inboundSeen, inboundCap, earlyLeft, encLog, readLog,
                   decLog, unlocked, falseZeroAt>>
    /\ UNCHANGED <<streamVars, linkVars, restVars, lateRecv>>

\* Circuit.Extend up to the budget check: c.wmu.Lock(),
\* encryptRelayLocked(RelayExtend2, 0, payload), and only then the
\* RELAY_EARLY budget check and the counter increment.
ExtendEncrypt(t) ==
    /\ StartCall(t)
    /\ wmu = Unlocked
    /\ LET r == encryptRelayLocked(Hops, RelayExtend2, 0, Extend2Len)
       IN  IF r.err # ""
           THEN /\ Return(t, "Extend", r.err)
                /\ UNCHANGED <<wmu, Hops, RelayEarlySent, outCell, encLog>>
           ELSE /\ Hops' = r.hops
                /\ encLog' = Append(encLog, EncEntry(Hops, RelayExtend2, 0, Extend2Len))
                /\ IF BudgetExhausted(RelayEarlySent)
                   THEN /\ Return(t, "Extend", "RELAY_EARLY budget exhausted")
                        /\ UNCHANGED <<wmu, RelayEarlySent, outCell>>
                   ELSE /\ wmu' = WriteLocked(t)
                        /\ RelayEarlySent' = RelayEarlySent + 1
                        /\ outCell' = [outCell EXCEPT
                                         ![t] = [cell |-> AsRelayEarly(r.cell),
                                                 seq |-> Len(encLog) + 1]]
                        /\ Goto(t, "ex_write")
    /\ UNCHANGED <<rmu, inCell, linkOut, linkBroken, relays, inboundSeen, inboundCap,
                   earlyLeft, readLog, decLog, unlocked, falseZeroAt>>
    /\ UNCHANGED <<streamVars, linkVars, restVars, lateRecv>>

\* Circuit.Extend: WriteCell(earlyCell); c.wmu.Unlock(); on a write error
\* return, otherwise go on to c.ReceiveRelay().
ExtendWrite(t) ==
    /\ pc[t] = "ex_write"
    /\ \E ok \in WriteOutcomes :
        /\ WriteCell(outCell[t].cell, outCell[t].seq, ok)
        /\ IF ok
           THEN /\ Goto(t, "ex_rr_lock")
                /\ RecvBegins(t)
           ELSE /\ Return(t, "Extend", "send EXTEND2")
                /\ UNCHANGED lateRecv
    /\ NoteWrite(t, "Extend")
    /\ wmu' = Unlocked
    /\ outCell' = [outCell EXCEPT ![t] = NoCell]
    /\ UNCHANGED <<rmu, Hops, RelayEarlySent, inCell, relays, inboundSeen, inboundCap,
                   callsLeft, earlyLeft, encLog, readLog, decLog, falseZeroAt>>
    /\ UNCHANGED <<streamVars, linkVars, restVars>>

\* ReceiveRelay was called by Extend (and not by the application).
InExtend(t) == pc[t] \in {"ex_rr_lock", "ex_rr_have"}

\* ReceiveRelay returns r to its caller: the application, or Extend.
RecvReturn(t, r) ==
    /\ lateRecv' = lateRecv \ {t}
    /\ IF InExtend(t)
       THEN /\ pc' = [pc EXCEPT ![t] = "ex_parse"]
            /\ ret' = [ret EXCEPT ![t] = r]
            /\ UNCHANGED refused
       ELSE Return(t, "ReceiveRelay", r.err)

\* The application calls Circuit.ReceiveRelay.
ReceiveRelayCall(t) ==
    /\ StartCall(t)
    /\ Goto(t, "rr_lock")
    /\ RecvBegins(t)
    /\ UNCHANGED <<wmu, rmu, Hops, RelayEarlySent, outCell, inCell, linkOut,
                   linkBroken, relays, inboundSeen, inboundCap, earlyLeft, encLog, readLog,
                   decLog, unlocked, falseZeroAt>>
    /\ UNCHANGED <<streamVars, linkVars, restVars>>

\* ReadCell returned cell c: the task holds c.rmu and the cell.
RecvGot(t, c) ==
    /\ inboundSeen < inboundCap
    /\ inboundSeen' = inboundSeen + 1
    /\ rmu' = ReadLocked(t)
    /\ inCell' = [inCell EXCEPT ![t] = c]
    /\ readLog' = IF c.cmd \in {CmdRelay, CmdRelayEarly}
                  THEN Append(readLog, c.id) ELSE readLog
    /\ Goto(t, IF InExtend(t) THEN "ex_rr_have" ELSE "rr_have")
    /\ UNCHANGED lateRecv

\* Circuit.ReceiveRelay: c.rmu.Lock(); c.Link.Reader.ReadCell().  The cell is
\* the next one the relays send; a read error (closed link, deadline)
\* releases the lock and is returned.
ReceiveRelayRead(t) ==
    /\ pc[t] \in {"rr_lock", "ex_rr_lock"}
    /\ rmu = Unlocked
    /\ \/ /\ RecvReturn(t, ErrRet("read cell"))
          /\ UNCHANGED <<rmu, inCell, relays, inboundSeen, readLog>>
       \/ /\ \/ \E cmd \in {CmdPadding, CmdCreated2} :
                    RecvGot(t, LinkCell(cmd, NextInboundId))
             \/ \E reason \in DestroyReasons :
                    RecvGot(t, DestroyCell(reason, NextInboundId))
          /\ UNCHANGED relays
       \/ \E j \in 1 .. Len(relays), zeroAt \in SUBSET (1 .. Len(relays)) :
            /\ RecvGot(t, CorruptCellFrom(j, zeroAt, NextInboundId))
            /\ relays' = RelaysAfterCorrupt(j)
       \/ \E j \in 1 .. Len(relays), m \in InMessages,
             zeroAt \in SUBSET (1 .. Len(relays)) :
            /\ zeroAt \subseteq 1 .. (j - 1)
            /\ RecvGot(t, RelayCellFrom(j, m[1], m[2], m[3], zeroAt, NextInboundId))
            /\ relays' = RelaysAfter(j, m[1], m[2], m[3])
    /\ UNCHANGED <<wmu, Hops, RelayEarlySent, outCell, linkOut, linkBroken,
                   inboundCap, callsLeft, earlyLeft, encLog, decLog, unlocked,
                   falseZeroAt>>
    /\ UNCHANGED <<streamVars, linkVars, restVars>>

\* Circuit.ReceiveRelay, the switch on the cell's command; every branch
\* releases c.rmu.  PADDING loops back to the Lock.
ReceiveRelayHandle(t) ==
    /\ pc[t] \in {"rr_have", "ex_rr_have"}
    /\ LET c == inCell[t]
           r == ReceiveRelayResult(Hops, c)
       IN  /\ Hops' = r.hops
           /\ IF c.cmd \in {CmdRelay, CmdRelayEarly}
              THEN /\ decLog' = Append(decLog, c.id)
                   /\ falseZeroAt' = FalseZeroHops(Hops, c)
              ELSE UNCHANGED <<decLog, falseZeroAt>>
           /\ IF r.loop
              THEN /\ Goto(t, IF InExtend(t) THEN "ex_rr_lock" ELSE "rr_lock")
                   /\ UNCHANGED lateRecv
              ELSE RecvReturn(t, r.ret)
    /\ rmu' = Unlocked
    /\ inCell' = [inCell EXCEPT ![t] = NoCell]
    /\ UNCHANGED <<wmu, RelayEarlySent, outCell, linkOut, linkBroken, relays,
                   inboundSeen, inboundCap, callsLeft, earlyLeft, encLog, readLog, unlocked>>
    /\ UNCHANGED <<streamVars, linkVars, restVars>>

\* Circuit.Extend after ReceiveRelay: the checks on the reply and the ntor
\* completion.  Whether HLEN is 64 and the handshake verifies depends on
\* bytes the model does not carry.
ExtendParse(t) ==
    /\ pc[t] = "ex_parse"
    /\ IF ret[t].err # ""
       THEN Return(t, "Extend", "receive EXTENDED2")
       ELSE IF ret[t].relayCmd # RelayExtended2
       THEN Return(t, "Extend", "expected EXTENDED2")
       ELSE IF ret[t].dlen < 2
       THEN Return(t, "Extend", "EXTENDED2 too short")
       ELSE \/ Return(t, "Extend", "EXTENDED2 HLEN or ntor complete")
            \/ /\ ret[t].dlen >= 66
               /\ pc' = [pc EXCEPT ![t] = "ex_addhop"]
               /\ ret' = [ret EXCEPT ![t] = NoRet]
               /\ UNCHANGED refused
    /\ UNCHANGED <<wmu, rmu, Hops, RelayEarlySent, outCell, inCell, linkOut,
                   linkBroken, relays, inboundSeen, inboundCap, callsLeft, earlyLeft, encLog,
                   readLog, decLog, unlocked, falseZeroAt>>
    /\ UNCHANGED <<streamVars, linkVars, restVars, lateRecv>>

\* Circuit.Extend, the end: with c.wmu and c.rmu both held, append the hop.
ExtendAddHop(t) ==
    /\ pc[t] = "ex_addhop"
    /\ wmu = Unlocked
    /\ rmu = Unlocked
    /\ Hops' = Append(Hops, initHop(Len(Hops) + 1))
    /\ relays' = Append(relays, initRelay(Len(relays) + 1))
    /\ Return(t, "Extend", "")
    /\ UNCHANGED <<wmu, rmu, RelayEarlySent, outCell, inCell, linkOut,
                   linkBroken, inboundSeen, inboundCap, callsLeft, earlyLeft, encLog, readLog,
                   decLog, unlocked, falseZeroAt>>
    /\ UNCHANGED <<streamVars, linkVars, restVars, lateRecv>>

\* ------------------------------------------------------------- the stream
\* Stream.ID: Begin never hands out 0.
ID == CHOOSE id \in StreamIDs : TRUE

\* The id of another stream on the same circuit.
OtherID == ID + 1

Min(a, b) == IF a < b THEN a ELSE b

\* len(p) of a Read and len(data) of a RELAY_DATA cell.
DataSizes == {1, MaxRelayDataLen}

\* What ReceiveRelay returns to Read: an error, or a relay cell's command,
\* stream id and data length.
RecvErr == [err |-> TRUE, relayCmd |-> 0, streamID |-> 0, dlen |-> 0]

RecvCell(relayCmd, streamID, dlen) ==
    [err |-> FALSE, relayCmd |-> relayCmd, streamID |-> streamID, dlen |-> dlen]

RecvResults ==
    {RecvErr} \cup
    {RecvCell(c, sid, d) :
        c \in {RelayData, RelayEnd, RelayConnected, RelaySendMe},
        sid \in {0, ID, OtherID}, d \in DataSizes}

\* The cells of the run: at most dataInCap RELAY_DATA cells for the stream
\* and sendmeCap SENDMEs of each level arrive.
Arrives(r) ==
    IF r.err THEN TRUE
    ELSE IF r.relayCmd = RelayData /\ r.streamID = ID THEN dataIn < dataInCap
    ELSE IF r.relayCmd = RelaySendMe /\ r.streamID = 0 THEN circSendmeIn < sendmeCap
    ELSE IF r.relayCmd = RelaySendMe /\ r.streamID = ID THEN streamSendmeIn < sendmeCap
    ELSE TRUE

\* A window test that lets a chunk through at window 0.
WindowExhaustedBelowZero(circWindow, streamWindow) ==
    circWindow < 0 \/ streamWindow < 0

\* Write's test of the send windows before each chunk.
WindowExhausted(circWindow, streamWindow) == circWindow <= 0 \/ streamWindow <= 0

\* A test that lets the counter pass its SENDME window by one.
SendMeLate(received, window) == received > window

\* handleDataReceived's test of a counter against its SENDME window.
SendMeDue(received, window) == received >= window

\* handleDataReceived on a stream with the given fields; okCirc and okStream
\* tell whether SendRelay of the circuit-level and of the stream-level SENDME
\* succeeds.  The result holds the fields afterwards, the error returned and
\* the SENDMEs sent.
handleDataReceived(cw, sw, cdr, sdr, okCirc, okStream) ==
    LET cdr1 == cdr + 1
        sdr1 == sdr + 1
        circDue == SendMeDue(cdr1, circSendMeWindow)
        streamDue == SendMeDue(sdr1, streamSendMeWindow)
        cw2 == IF circDue THEN cw + circSendMeWindow ELSE cw
        cdr2 == IF circDue THEN 0 ELSE cdr1
        circSent == IF circDue THEN 1 ELSE 0
    IN  IF circDue /\ ~okCirc
        THEN [err |-> "send circuit SENDME",
              CircWindow |-> cw, StreamWindow |-> sw,
              circDataReceived |-> cdr1, streamDataReceived |-> sdr1,
              circSent |-> 0, streamSent |-> 0]
        ELSE IF streamDue /\ ~okStream
        THEN [err |-> "send stream SENDME",
              CircWindow |-> cw2, StreamWindow |-> sw,
              circDataReceived |-> cdr2, streamDataReceived |-> sdr1,
              circSent |-> circSent, streamSent |-> 0]
        ELSE [err |-> "",
              CircWindow |-> cw2,
              StreamWindow |-> IF streamDue THEN sw + streamSendMeWindow ELSE sw,
              circDataReceived |-> cdr2,
              streamDataReceived |-> IF streamDue THEN 0 ELSE sdr1,
              circSent |-> circSent,
              streamSent |-> IF streamDue THEN 1 ELSE 0]

\* What a run fixes at its start, and the window that a decrement of Write
\* holds between its read and its write.
streamCaps == <<dataInCap, sendmeCap, wlens, wheld>>

\* const relayEndReasonDone: the reason byte of the RELAY_END that Close sends.
relayEndReasonDone == 6

\* What only Begin changes.
beginQuiet == <<nextStreamID, live, bpc, bid, bret, beginsLeft, elsewhereLeft>>

beginSide == <<beginQuiet, droppedLive, firstReply>>

\* No stream: Begin's nil.
NoStream == [ID |-> 0, CircWindow |-> 0, StreamWindow |-> 0]

\* What a task that has not called Begin has got from it.
NoBegin == [stream |-> NoStream, err |-> "", reason |-> 0]

\* No relay cell.
NoReply == [relayCmd |-> 0, data |-> << >>]

\* The data of the RELAY_END cells a relay sends: none, or a reason byte.
EndData == {<< >>, <<1>>, <<relayEndReasonDone>>}

\* The relay cell (relayCmd, sid, data) is returned by ReceiveRelay: it is the
\* first reply to every Begin that waits with id sid and has none yet.
Replied(sid, relayCmd, data) ==
    [t \in Tasks |->
        IF bpc[t] = "wait" /\ bid[t] = sid /\ firstReply[t] = NoReply
        THEN [relayCmd |-> relayCmd, data |-> data]
        ELSE firstReply[t]]

\* What only the bytes that Read returns change.
orderSide == <<retCell, pending, bufCell>>

\* A Read that forgot the bytes that did not fit p.
RemainderDropped(size, dlen) == 0

\* len(data[n:]) after n := copy(p, data): the bytes that did not fit p.
Remainder(size, dlen) == dlen - Min(size, dlen)

\* What only handleDataReceived's SENDMEs change.
sendmeSide == <<trigger, sendmeDigest, rdata, sendmeLog>>

\* What only Read and the cells received change.
readSide == <<buf, eof, circDataReceived, streamDataReceived, rpc, rsize, rret,
              circSendmeOut, streamSendmeOut, sendmeFailed, dataIn,
              circSendmeIn, streamSendmeIn>>

\* A Write that does not look at s.closed.
WriteEntryOpen(c) == ""

\* Write's test of s.closed before its loop: the error it returns at once,
\* "" when it goes on.
WriteEntry(c) == IF c THEN "stream closed" ELSE ""

\* Write's chunk of p: p itself, or p[:MaxRelayDataLen] when p is longer.
ChunkLen(n) == Min(n, MaxRelayDataLen)

\* A Write that does not move p past the chunk it has sent.
RestSame(left, chunk) == left

\* len(p) after p = p[len(chunk):].
Rest(left, chunk) == left - chunk

\* SendRelay's encryptRelayLocked refuses the chunk.
ChunkRefused(dlen) == dlen > MaxRelayDataLen

\* Write returns total and the error err.
WriteReturn(err) ==
    /\ wret' = err
    /\ wpc' = "idle"
    /\ wleft' = 0

\* Stream.Write is called with a buffer of n bytes.
WriteCall ==
    /\ wpc = "idle"
    /\ \E n \in wlens :
        /\ wsize' = n
        /\ wtotal' = 0
        /\ wlog' = << >>
        /\ IF WriteEntry(closed) # ""
           THEN WriteReturn(WriteEntry(closed))
           ELSE IF n = 0
                THEN WriteReturn("")
                ELSE /\ wpc' = "writing"
                     /\ wleft' = n
                     /\ UNCHANGED wret
    /\ UNCHANGED <<CircWindow, StreamWindow, closed, dataSent, endSent, endLog,
                   closeRet>>
    /\ UNCHANGED <<readSide, streamCaps, linkVars, restVars, sendmeSide, orderSide, beginSide, circuitVars>>

\* Stream.Write, one turn of its loop: the window test, the chunk, SendRelay
\* of it, the two decrements, total and p; after the last chunk Write
\* returns.
WriteChunk ==
    /\ wpc = "writing"
    /\ LET chunk == ChunkLen(wleft)
           rest == Rest(wleft, chunk)
       IN  IF WindowExhausted(CircWindow, StreamWindow)
           THEN /\ WriteReturn("send window exhausted")
                /\ UNCHANGED <<CircWindow, StreamWindow, dataSent, linkBroken,
                               wtotal, wlog>>
           ELSE IF ChunkRefused(chunk)
           THEN /\ WriteReturn("send RELAY_DATA")
                /\ UNCHANGED <<CircWindow, StreamWindow, dataSent, linkBroken,
                               wtotal, wlog>>
           ELSE \E ok \in WriteOutcomes :
                IF ~ok
                THEN /\ WriteReturn("send RELAY_DATA")
                     /\ linkBroken' = TRUE
                     /\ UNCHANGED <<CircWindow, StreamWindow, dataSent, wtotal,
                                    wlog>>
                ELSE /\ CircWindow' = CircWindow - 1
                     /\ StreamWindow' = StreamWindow - 1
                     /\ dataSent' = dataSent + 1
                     /\ wlog' = Append(wlog, [off |-> wsize - wleft, len |-> chunk])
                     /\ wtotal' = wtotal + chunk
                     /\ wleft' = rest
                     /\ wpc' = IF rest = 0 THEN "idle" ELSE "writing"
                     /\ wret' = IF rest = 0 THEN "" ELSE wret
                     /\ UNCHANGED linkBroken
    /\ UNCHANGED <<closed, endSent, endLog, closeRet, wsize>>
    /\ UNCHANGED <<readSide, streamCaps, linkVars, restVars, sendmeSide, orderSide, beginSide,
                   circuitQuiet>>

\* A Close that sends RELAY_END whenever it is called.
CloseAlwaysSends(c) == TRUE

\* Close's test of s.closed: only a stream not yet closed goes on to SendRelay.
CloseSends(c) == ~c

\* The cell Close hands to SendRelay.
EndCell == [relayCmd |-> RelayEnd, streamID |-> ID, data |-> <<relayEndReasonDone>>]

\* Stream.Close: a call on a stream not yet closed sets closed and returns
\* what SendRelay of RELAY_END returns; any other call returns nil.
Close ==
    /\ wpc = "idle"
    /\ IF ~CloseSends(closed)
       THEN /\ closeRet' = ""
            /\ UNCHANGED <<closed, endSent, endLog, linkBroken>>
       ELSE /\ closed' = TRUE
            /\ \E ok \in WriteOutcomes :
                /\ endSent' = IF ok THEN endSent + 1 ELSE endSent
                /\ endLog' = IF ok THEN Append(endLog, EndCell) ELSE endLog
                /\ closeRet' = IF ok THEN "" ELSE "write cell"
                /\ linkBroken' = (linkBroken \/ ~ok)
    /\ UNCHANGED <<CircWindow, StreamWindow, wpc, wleft, wsize, wtotal, wlog, wret, dataSent>>
    /\ UNCHANGED <<readSide, streamCaps, linkVars, restVars, sendmeSide, orderSide, beginSide,
                   circuitQuiet>>

\* A Read that tests s.closed before s.eof.
ReadEntryClosedFirst(e, c) ==
    IF c THEN "stream closed" ELSE IF e THEN "EOF" ELSE ""

\* Read's two tests before it touches buf or the circuit: s.eof, then
\* s.closed.  The error it returns at once, "" when it goes on.
ReadEntry(e, c) ==
    IF e THEN "EOF" ELSE IF c THEN "stream closed" ELSE ""

\* Stream.Read up to its loop: the eof and closed tests, and the bytes that
\* an earlier Read left in buf.
ReadCall ==
    /\ rpc = "idle"
    /\ IF ReadEntry(eof, closed) # ""
       THEN /\ rret' = ReadEntry(eof, closed)
            /\ UNCHANGED <<buf, rpc, rsize, orderSide>>
       ELSE \E size \in DataSizes :
                IF buf > 0
                THEN /\ buf' = buf - Min(size, buf)
                     /\ retCell' = bufCell
                     /\ pending' = pending - Min(size, buf)
                     /\ rret' = ""
                     /\ UNCHANGED <<rpc, rsize, bufCell>>
                ELSE /\ rpc' = "reading"
                     /\ rsize' = size
                     /\ rret' = ""
                     /\ UNCHANGED <<buf, orderSide>>
    /\ UNCHANGED <<CircWindow, StreamWindow, closed, eof, circDataReceived,
                   streamDataReceived, wpc, wleft, wsize, wtotal, wlog, wret, dataSent, endSent,
                   endLog, closeRet, circSendmeOut, streamSendmeOut, sendmeFailed, dataIn,
                   circSendmeIn, streamSendmeIn>>
    /\ UNCHANGED <<streamCaps, linkVars, restVars, sendmeSide, beginSide, circuitVars>>

\* Read returns error err ("": nil) to its caller.
ReadReturn(err) == rpc' = "idle" /\ rsize' = 0 /\ rret' = err

\* Stream.Read, one turn of its loop: ReceiveRelay and what Read does with
\* the cell.
ReadCell ==
    /\ rpc = "reading"
    /\ \E r \in RecvResults, okCirc \in WriteOutcomes, okStream \in WriteOutcomes :
        /\ Arrives(r)
        /\ droppedLive' = IF ~r.err /\ r.streamID # ID /\ BagIn(r.streamID, live)
                          THEN droppedLive \cup {r.streamID}
                          ELSE droppedLive
        /\ \E data \in IF ~r.err /\ r.streamID # ID /\ r.relayCmd = RelayEnd
                        THEN EndData ELSE {<< >>} :
            firstReply' = IF r.err THEN firstReply
                          ELSE Replied(r.streamID, r.relayCmd, data)
        /\ LET h == handleDataReceived(CircWindow, StreamWindow,
                                        circDataReceived, streamDataReceived,
                                        okCirc, okStream)
           IN  IF ~r.err /\ r.streamID = ID /\ r.relayCmd = RelayData /\ h.err = ""
               THEN /\ retCell' = dataIn + 1
                    /\ pending' = r.dlen - Min(rsize, r.dlen)
                    /\ bufCell' = IF Remainder(rsize, r.dlen) > 0
                                  THEN dataIn + 1 ELSE bufCell
               ELSE UNCHANGED orderSide
        /\ IF r.err
           THEN /\ ReadReturn("receive relay")
                /\ UNCHANGED <<CircWindow, StreamWindow, buf, eof, circDataReceived,
                               streamDataReceived, circSendmeOut, streamSendmeOut,
                               sendmeFailed, dataIn, circSendmeIn, streamSendmeIn,
                               linkBroken>>
           ELSE IF r.relayCmd = RelaySendMe /\ r.streamID = 0
           THEN /\ CircWindow' = CircWindow + circSendMeWindow
                /\ circSendmeIn' = circSendmeIn + 1
                /\ UNCHANGED <<StreamWindow, buf, eof, circDataReceived,
                               streamDataReceived, circSendmeOut, streamSendmeOut,
                               sendmeFailed, dataIn, streamSendmeIn, linkBroken,
                               rpc, rsize, rret>>
           ELSE IF r.streamID # ID
           THEN UNCHANGED <<CircWindow, StreamWindow, buf, eof, circDataReceived,
                            streamDataReceived, circSendmeOut, streamSendmeOut,
                            sendmeFailed, dataIn, circSendmeIn, streamSendmeIn,
                            linkBroken, rpc, rsize, rret>>
           ELSE IF r.relayCmd = RelayData
           THEN LET h == handleDataReceived(CircWindow, StreamWindow,
                                            circDataReceived, streamDataReceived,
                                            okCirc, okStream)
                IN  /\ CircWindow' = h.CircWindow
                    /\ StreamWindow' = h.StreamWindow
                    /\ circDataReceived' = h.circDataReceived
                    /\ streamDataReceived' = h.streamDataReceived
                    /\ circSendmeOut' = circSendmeOut + h.circSent
                    /\ streamSendmeOut' = streamSendmeOut + h.streamSent
                    /\ sendmeFailed' = (sendmeFailed \/ h.err # "")
                    /\ linkBroken' = (linkBroken \/ h.err # "")
                    /\ dataIn' = dataIn + 1
                    /\ buf' = IF h.err = ""
                              THEN buf + Remainder(rsize, r.dlen)
                              ELSE buf
                    /\ ReadReturn(h.err)
                    /\ UNCHANGED <<eof, circSendmeIn, streamSendmeIn>>
           ELSE IF r.relayCmd = RelayEnd
           THEN /\ eof' = TRUE
                /\ ReadReturn("EOF")
                /\ UNCHANGED <<CircWindow, StreamWindow, buf, circDataReceived,
                               streamDataReceived, circSendmeOut, streamSendmeOut,
                               sendmeFailed, dataIn, circSendmeIn, streamSendmeIn,
                               linkBroken>>
           ELSE IF r.relayCmd = RelaySendMe
           THEN /\ StreamWindow' = StreamWindow + streamSendMeWindow
                /\ streamSendmeIn' = streamSendmeIn + 1
                /\ UNCHANGED <<CircWindow, buf, eof, circDataReceived,
                               streamDataReceived, circSendmeOut, streamSendmeOut,
                               sendmeFailed, dataIn, circSendmeIn, linkBroken,
                               rpc, rsize, rret>>
           ELSE /\ ReadReturn("unexpected relay command")
                /\ UNCHANGED <<CircWindow, StreamWindow, buf, eof, circDataReceived,
                               streamDataReceived, circSendmeOut, streamSendmeOut,
                               sendmeFailed, dataIn, circSendmeIn, streamSendmeIn,
                               linkBroken>>
    /\ UNCHANGED <<closed, wpc, wleft, wsize, wtotal, wlog, wret, dataSent, endSent, endLog, closeRet>>
    /\ UNCHANGED <<streamCaps, linkVars, restVars, sendmeSide, beginQuiet, circuitQuiet>>

\* ------------------------------------------------------------------ Create
\* A 32-bit word as its top bit and the 31 bits below it.
Word(msb, low) == [msb |-> msb, low |-> low]

\* var circID uint32: the zero value.
NoCircID == Word(0, 0)

\* The words rand.Read yields in the runs of the model.
RandomWords == {Word(0, 1), Word(1, 1), Word(0, 2)}

\* allocateCircID: circID |= 0x80000000.
SetMSB(w) == [w EXCEPT !.msb = 1]

\* Circuit.ID of the circuit the model starts with.
FirstCircID == SetMSB(Word(0, 1))

\* A ClaimCircID that says yes to an id that is already claimed.
ClaimAlways(ids, id) == TRUE

\* Link.ClaimCircID's answer: false if the id is already in use.
ClaimCircID(ids, id) == id \notin ids

\* cell.NewFixedCell(circID, cmd) as Create and Destroy write it.
CircuitCell(cmd, id) == [cmd |-> cmd, circID |-> id]

\* How the relay's reply to CREATE2 ends Create ("": CREATED2 is accepted).
CreateReplies ==
    {"read CREATED2", "relay sent DESTROY instead of CREATED2",
     "expected CREATED2", "CREATED2 HLEN", "ntor complete", "init hop", ""}

\* Create returns to its caller with error err ("": the circuit).
CreateReturn(err) ==
    /\ cpc' = "idle"
    /\ createErr' = err
    /\ circuits' = IF err = "" THEN circuits \cup {circID} ELSE circuits

\* What no step of Create changes.
createFrame == <<pc, wmu, rmu, Hops, RelayEarlySent, outCell, inCell, ret,
                 refused, relays, inboundSeen, inboundCap, callsLeft, earlyLeft,
                 encLog, readLog, decLog, unlocked, falseZeroAt, lateRecv,
                 streamVars, restVars>>

\* The deadline on the link when Create is entered: tryBuildCircuit calls
\* l.SetDeadline(30 s) first, every other caller leaves the link as it is.
CallerDeadline(d, arms) == IF arms THEN DeadlineSeconds ELSE d

\* Create is called on the link.
CreateCall ==
    /\ cpc = "idle"
    /\ createsLeft > 0
    /\ createsLeft' = createsLeft - 1
    /\ cpc' = "alloc"
    /\ circID' = NoCircID
    /\ attempts' = 0
    /\ \E arms \in BOOLEAN : deadline' = CallerDeadline(deadline, arms)
    /\ UNCHANGED <<CircIDs, createErr, circuits, linkOut, linkBroken,
                   createFrame>>

\* Create, one turn of its first loop: allocateCircID and l.ClaimCircID(id);
\* after MaxClaimAttempts turns circID is still 0 and Create fails.
CreateAlloc ==
    /\ cpc = "alloc"
    /\ IF attempts >= MaxClaimAttempts
       THEN /\ CreateReturn("failed to allocate unique circuit ID after 16 attempts")
            /\ UNCHANGED <<CircIDs, circID, attempts>>
       ELSE \/ /\ CreateReturn("allocate circuit ID")
               /\ UNCHANGED <<CircIDs, circID, attempts>>
            \/ \E w \in RandomWords :
                LET id == SetMSB(w)
                IN  IF ClaimCircID(CircIDs, id)
                    THEN /\ CircIDs' = CircIDs \cup {id}
                         /\ circID' = id
                         /\ cpc' = "send"
                         /\ UNCHANGED <<attempts, createErr, circuits>>
                    ELSE /\ attempts' = attempts + 1
                         /\ UNCHANGED <<CircIDs, circID, cpc, createErr, circuits>>
    /\ UNCHANGED <<createsLeft, deadline, linkOut, linkBroken, createFrame>>

\* Create: ntor.NewHandshake, then l.SetDeadline(30 s) with the deferred
\* l.SetDeadline(time.Time{}), then l.Writer.WriteCell(create2).
CreateSend ==
    /\ cpc = "send"
    /\ \/ /\ CreateReturn("ntor handshake init")
          /\ UNCHANGED <<linkOut, linkBroken, deadline>>
       \/ \E ok \in WriteOutcomes :
            /\ WriteCell(CircuitCell(CmdCreate2, circID), 0, ok)
            /\ IF ok
               THEN /\ cpc' = "read"
                    /\ deadline' = DeadlineSeconds
                    /\ UNCHANGED <<createErr, circuits>>
               ELSE /\ CreateReturn("send CREATE2")
                    /\ deadline' = NoDeadline
    /\ UNCHANGED <<CircIDs, circID, attempts, createsLeft, createFrame>>

\* Create: l.Reader.ReadCell() and everything that follows it; each failure
\* returns nil and its error, and every return runs the deferred
\* l.SetDeadline(time.Time{}).
CreateRead ==
    /\ cpc = "read"
    /\ \E err \in CreateReplies : CreateReturn(err)
    /\ deadline' = NoDeadline
    /\ UNCHANGED <<CircIDs, circID, attempts, createsLeft, linkOut,
                   linkBroken, createFrame>>

\* Circuit.Destroy on a circuit that Create returned: the DESTROY cell is
\* written; the id stays in Link.CircIDs.
DestroyCreated ==
    /\ cpc = "idle"
    /\ \E id \in circuits \ {FirstCircID}, ok \in WriteOutcomes :
        /\ WriteCell(CircuitCell(CmdDestroy, id), 0, ok)
        /\ circuits' = circuits \ {id}
    /\ UNCHANGED <<CircIDs, cpc, circID, attempts, createErr, createsLeft,
                   deadline, createFrame>>

\* ------------------------------------------------------ link.Handshake
\* Handshake has not been called; handshakes calls of it are made.
InitHandshake(handshakes) ==
    /\ hpc = "idle"
    /\ conn = "none"
    /\ negotiated = 0
    /\ padSkipped = 0
    /\ hrecv = << >>
    /\ hsent = << >>
    /\ hret = ""
    /\ handshakesLeft = handshakes

\* ------------------------------------------------------- ntor, hs-ntor
\* A scalar of zero bytes only: what clear() and the zeroing loop leave.
ZeroScalar == [i \in 1 .. ScalarLen |-> 0]

\* The private scalars rand.Read can give.
Scalars == [1 .. ScalarLen -> 0 .. MaxScalarByte] \ {ZeroScalar}

\* The handshake states as NewHandshake and HsNtorClientHandshake make
\* them; completes calls of a Complete are made.  A run without such calls
\* has no handshake state.
InitNtor(completes) ==
    /\ hs_x \in IF completes = 0 THEN {ZeroScalar} ELSE Scalars
    /\ state_x \in IF completes = 0 THEN {ZeroScalar} ELSE Scalars
    /\ completeRet = ""
    /\ hsCompleteRet = ""
    /\ completesLeft = completes

\* ------------------------------------------------------- the cell reader
\* func IsVariableLength(cmd uint8) bool.
IsVariableLength(cmd) == cmd = CmdVersions \/ cmd >= CmdVPadding

\* What a read did: the error it returned ("": a cell), the length of the
\* Cell it made (0: none) and the bytes it asked the connection for after
\* the header and the length.
ReadResult(err, made, asked) == [err |-> err, made |-> made, asked |-> asked]

\* Reader.ReadCell on a connection that delivers have bytes and then ends,
\* the first of them a header with the command cmd and, for a cell of
\* variable length, the length pLen.
Reader_ReadCell(cmd, pLen, have) ==
    IF have < 5
    THEN ReadResult("read cell header", 0, 0)
    ELSE IF IsVariableLength(cmd)
    THEN IF have < 7
         THEN ReadResult("read varlen length", 0, 0)
         ELSE IF pLen > MaxVarPayloadLen
         THEN ReadResult("variable-length cell payload too large", 0, 0)
         ELSE IF pLen > 0 /\ have < 7 + pLen
         THEN ReadResult("read varlen payload", 7 + pLen, pLen)
         ELSE ReadResult("", 7 + pLen, pLen)
    ELSE IF have < FixedCellLen
         THEN ReadResult("read fixed payload", FixedCellLen, FixedCellLen - 5)
         ELSE ReadResult("", FixedCellLen, FixedCellLen - 5)

\* Reader.ReadVersionsCell on such a connection: the header holds a circuit
\* id of two bytes, the command and the length.
Reader_ReadVersionsCell(cmd, pLen, have) ==
    IF have < 5
    THEN ReadResult("read versions header", 0, 0)
    ELSE IF cmd # CmdVersions
    THEN ReadResult("expected VERSIONS (7)", 0, 0)
    ELSE IF pLen > 0 /\ have < 5 + pLen
    THEN ReadResult("read versions payload", 5 + pLen, pLen)
    ELSE ReadResult("", 5 + pLen, pLen)

\* No read yet.
NoRead == [fn |-> "", cmd |-> 0, pLen |-> 0, have |-> 0, res |-> ReadResult("", 0, 0)]

\* The reader has read nothing; reads calls of it are made.
InitReader(reads) ==
    /\ rdRet = NoRead
    /\ readsLeft = reads

\* No call of SelectHSDirs yet.
NoSelect == [called |-> FALSE, err |-> "", result |-> << >>]

\* SelectHSDirs has not been called; selects calls of it are made.
InitHSDir(selects) ==
    /\ hdpc = "idle"
    /\ consensus = << >>
    /\ svcIdx = << >>
    /\ ring = << >>
    /\ replica = 0
    /\ start = 0
    /\ count = 0
    /\ offset = 0
    /\ selected = {}
    /\ result = << >>
    /\ hdRet = NoSelect
    /\ selectsLeft = selects

\* The circuit has no stream yet; begins calls of Begin are made on it.
InitMux(begins) ==
    /\ streams = << >>
    /\ circCells = 0
    /\ circSendmes = 0
    /\ streamSendmes = 0
    /\ streamsLeft = begins

\* Neither the reader nor the selection of HSDirs is at work, and no
\* streams share a circuit.
InitApart == InitReader(0) /\ InitHSDir(0) /\ InitMux(0)

\* ------------------------------------------------ ConnectOnionService
\* No relay cell received yet.
NoCellYet == [relayCmd |-> 0, data |-> << >>]

\* ConnectOnionService has not been called; connects calls of it are made.
InitOnion(connects) ==
    /\ opc = "idle"
    /\ IntroPoints \in IF connects = 0 THEN {0} ELSE 0 .. MaxIntroPoints
    /\ ipIdx = 0
    /\ lastIntroErr = ""
    /\ rendLink = "none"
    /\ rendHops = 0
    /\ introLinks = << >>
    /\ ackCell = NoCellYet
    /\ rend2Cell = NoCellYet
    /\ oret = ""
    /\ streamOpen = FALSE
    /\ tried = << >>
    /\ triedErr = << >>
    /\ verified = FALSE
    /\ beginHops = 0
    /\ connectsLeft = connects

\* ------------------------------------------------------- specifications
\* The circuit as Create returns it: one hop, nothing sent, its id claimed
\* on the link; creates more calls of Create are made on the link.
InitLink(creates) ==
    /\ pc = [t \in Tasks |-> "idle"]
    /\ wmu = Unlocked
    /\ rmu = Unlocked
    /\ Hops = <<initHop(1)>>
    /\ RelayEarlySent = 0
    /\ outCell = [t \in Tasks |-> NoCell]
    /\ inCell = [t \in Tasks |-> NoCell]
    /\ ret = [t \in Tasks |-> NoRet]
    /\ refused = 0
    /\ linkOut = << >>
    /\ linkBroken = FALSE
    /\ relays = <<initRelay(1)>>
    /\ inboundSeen = 0
    /\ encLog = << >>
    /\ readLog = << >>
    /\ decLog = << >>
    /\ unlocked = {}
    /\ falseZeroAt = {}
    /\ lateRecv = {}
    /\ CircIDs = {FirstCircID}
    /\ cpc = "idle"
    /\ circID = NoCircID
    /\ attempts = 0
    /\ createErr = ""
    /\ circuits = {FirstCircID}
    /\ createsLeft = creates
    /\ deadline = NoDeadline

\* No part of the program beside the circuit, the stream and the link's
\* circuit ids is at work.
InitRest == InitOnion(0) /\ InitHandshake(0) /\ InitNtor(0) /\ InitApart

InitCircuitCreates(creates) == InitLink(creates) /\ InitRest

InitCircuit == InitCircuitCreates(0)

\* Buffers of whole chunks: 0 .. MaxChunks times MaxRelayDataLen bytes.
WholeChunks == {k * MaxRelayDataLen : k \in 0 .. MaxChunks}

\* Buffers that end one byte before, at and one byte after a chunk's end.
RaggedChunks ==
    {n \in 0 .. MaxChunks * MaxRelayDataLen + 1 :
        \E k \in 0 .. MaxChunks, d \in {-1, 0, 1} : n = k * MaxRelayDataLen + d}

\* The stream as Begin returns it, in a run in which dcap RELAY_DATA cells
\* and scap SENDMEs of each level arrive, begins more Begin calls are made
\* on the circuit and elsewhere bursts of them on other circuits, and Write
\* is called with buffers of the lengths lens; the stream has sent sent
\* RELAY_DATA cells by then and no SENDME has come for them yet; the
\* process-wide counter stands at next and the streams with the ids in ids
\* are live on the circuit.
InitStreamAt(dcap, scap, begins, elsewhere, lens, sent, next, ids) ==
    /\ CircWindow = initCircWindow - sent
    /\ StreamWindow = initStreamWindow - sent
    /\ buf = 0
    /\ closed = FALSE
    /\ eof = FALSE
    /\ circDataReceived = 0
    /\ streamDataReceived = 0
    /\ wpc = "idle"
    /\ wleft = 0
    /\ wsize = 0
    /\ wtotal = 0
    /\ wlog = << >>
    /\ wlens = lens
    /\ wheld = 0
    /\ wret = ""
    /\ rpc = "idle"
    /\ rsize = 0
    /\ rret = ""
    /\ dataSent = sent
    /\ endSent = 0
    /\ endLog = << >>
    /\ closeRet = ""
    /\ circSendmeOut = 0
    /\ streamSendmeOut = 0
    /\ sendmeFailed = FALSE
    /\ dataIn = 0
    /\ circSendmeIn = 0
    /\ streamSendmeIn = 0
    /\ dataInCap = dcap
    /\ sendmeCap = scap
    /\ trigger = << >>
    /\ sendmeDigest = << >>
    /\ rdata = 0
    /\ sendmeLog = << >>
    /\ retCell = 0
    /\ pending = 0
    /\ bufCell = 0
    /\ nextStreamID = next
    /\ live = SetToBag(ids)
    /\ droppedLive = {}
    /\ bpc = [t \in Tasks |-> "idle"]
    /\ bid = [t \in Tasks |-> 0]
    /\ bret = [t \in Tasks |-> NoBegin]
    /\ firstReply = [t \in Tasks |-> NoReply]
    /\ beginsLeft = begins
    /\ elsewhereLeft = elsewhere

\* The stream is the first one that Begin returned in the process.
InitStreamLens(dcap, scap, begins, elsewhere, lens, sent) ==
    InitStreamAt(dcap, scap, begins, elsewhere, lens, sent, ID + 1, {ID})

InitStreamBegins(dcap, scap, begins, elsewhere) ==
    InitStreamLens(dcap, scap, begins, elsewhere, WholeChunks, 0)

InitStream(dcap, scap) == InitStreamBegins(dcap, scap, 0, 0)

\* A run of MaxCalls calls of any kind.
Init ==
    /\ InitCircuit
    /\ InitStream(0, 0)
    /\ callsLeft = MaxCalls
    /\ earlyLeft = 0
    /\ inboundCap = MaxInboundW

Next ==
    \E t \in Tasks :
        \/ SendRelayEncrypt(t)
        \/ SendRelayWrite(t)
        \/ SendRelayEarlyCheck(t)
        \/ SendRelayEarlyWrite(t)
        \/ Destroy(t)
        \/ ExtendInvalid(t)
        \/ ExtendEncrypt(t)
        \/ ExtendWrite(t)
        \/ ReceiveRelayCall(t)
        \/ ReceiveRelayRead(t)
        \/ ReceiveRelayHandle(t)
        \/ ExtendParse(t)
        \/ ExtendAddHop(t)

Spec == Init /\ [][Next]_vars

\* An early-heavy run: up to MaxEarlyCalls calls of SendRelayEarly, then
\* MaxEarlyMixed calls of SendRelayEarly and Extend.
InitEarly ==
    /\ InitCircuit
    /\ InitStream(0, 0)
    /\ callsLeft = MaxEarlyMixed
    /\ earlyLeft \in 0 .. MaxEarlyCalls
    /\ inboundCap = MaxInboundW

NextEarly ==
    \E t \in Tasks :
        \/ SendRelayEarlyCheck(t)
        \/ SendRelayEarlyWrite(t)
        \/ ExtendEncrypt(t)
        \/ ExtendWrite(t)
        \/ ReceiveRelayRead(t)
        \/ ReceiveRelayHandle(t)
        \/ ExtendParse(t)
        \/ ExtendAddHop(t)

SpecEarly == InitEarly /\ [][NextEarly]_vars

\* An early-heavy run in which SendRelay is called too.
NextEarlySend ==
    \E t \in Tasks :
        \/ SendRelayEncrypt(t)
        \/ SendRelayWrite(t)
        \/ SendRelayEarlyCheck(t)
        \/ SendRelayEarlyWrite(t)
        \/ ExtendEncrypt(t)
        \/ ExtendWrite(t)
        \/ ReceiveRelayRead(t)
        \/ ReceiveRelayHandle(t)
        \/ ExtendParse(t)
        \/ ExtendAddHop(t)

SpecEarlySend == InitEarly /\ [][NextEarlySend]_vars

\* A receive-heavy run: MaxRecvCalls calls of ReceiveRelay and Extend, and
\* MaxInbound cells from the relays.
InitRecv ==
    /\ InitCircuit
    /\ InitStream(0, 0)
    /\ callsLeft = MaxRecvCalls
    /\ earlyLeft = 0
    /\ inboundCap = MaxInbound

NextRecv ==
    \E t \in Tasks :
        \/ ExtendEncrypt(t)
        \/ ExtendWrite(t)
        \/ ReceiveRelayCall(t)
        \/ ReceiveRelayRead(t)
        \/ ReceiveRelayHandle(t)
        \/ ExtendParse(t)
        \/ ExtendAddHop(t)

SpecRecv == InitRecv /\ [][NextRecv]_vars

\* The circuit under a stream: no task calls into it directly.
InitCircuitUnderStream ==
    /\ InitCircuit
    /\ callsLeft = 0
    /\ earlyLeft = 0
    /\ inboundCap = 0

\* A send-heavy run of the stream: any number of Write calls, SENDMEs and
\* control cells from the relay, no RELAY_DATA for the stream.
InitStreamSend ==
    /\ InitCircuitUnderStream
    /\ InitStreamLens(0, MaxSendmeIn, 0, 0, WholeChunks, SentBefore)

NextStreamSend ==
    \/ WriteCall
    \/ WriteChunk
    \/ ReadCall
    \/ ReadCell
    \/ Close

SpecStreamSend == InitStreamSend /\ [][NextStreamSend]_vars

\* A receive-heavy run of the stream: MaxDataIn RELAY_DATA cells arrive and
\* the application only reads.
InitStreamRecv ==
    /\ InitCircuitUnderStream
    /\ InitStream(MaxDataIn, MaxSendmeIn)

NextStreamRecv ==
    \/ ReadCall
    \/ ReadCell

SpecStreamRecv == InitStreamRecv /\ [][NextStreamRecv]_vars

\* --------------------------------------------------------------- properties
\* Task t has encrypted a cell and not yet written it.
HoldsEncrypted(t) == pc[t] \in {"sr_write", "ex_write"}

\* The places of linkOut that hold cells built by encryptRelayLocked.
EncryptedOut == {i \in 1 .. Len(linkOut) : linkOut[i].seq > 0}

\* C1 (SendRelay, Extend): cells leave in the order in which they were
\* encrypted: the encrypted cells on the link stand in the order of their
\* places in the encryption order, a task that holds an encrypted cell holds
\* the latest one, every encrypted cell on the link was encrypted before it,
\* and while it holds the cell no other SendRelay, SendRelayEarly or Extend
\* writes to the link.
C1_EncryptOrderIsWriteOrder ==
    /\ [](/\ \A i, j \in EncryptedOut :
                i < j => linkOut[i].seq < linkOut[j].seq
          /\ \A t \in Tasks :
                HoldsEncrypted(t) =>
                    /\ outCell[t].seq = Len(encLog)
                    /\ \A i \in EncryptedOut : linkOut[i].seq < outCell[t].seq)
    /\ [][\A t \in Tasks :
            (HoldsEncrypted(t) /\ linkOut' # linkOut) =>
                \/ linkOut' = Append(linkOut, outCell[t])
                \/ linkOut'[Len(linkOut')].cell.cmd = CmdDestroy]_vars

\* C1: a SendRelay cell and an Extend cell are on the link while a third
\* cell is encrypted and waits for its write.
C1_Witness ==
    /\ \E i, j \in EncryptedOut :
          /\ i < j
          /\ linkOut[i].cell.cmd # linkOut[j].cell.cmd
    /\ \E t \in Tasks : HoldsEncrypted(t)

\* C2 (SendRelay, SendRelayEarly, Extend, Destroy): no operation writes a
\* cell to the link, or changes kf, df or RelayEarlySent, without holding
\* the circuit's write lock.
C2_WritesUnderWriteLock == unlocked = {}

\* A task that has read a cell and not yet handled it.
HoldsRead(t) == pc[t] \in {"rr_have", "ex_rr_have"}

IsPrefix(s, t) == Len(s) <= Len(t) /\ SubSeq(t, 1, Len(s)) = s

\* C3 (ReceiveRelay): RELAY cells are decrypted in the order in which they
\* were read: the decrypted cells are the cells read, in order, but for at
\* most one cell that was read and is not yet decrypted; the task that
\* holds a cell it has read holds the read lock, so that no two tasks stand
\* between ReadCell and the end of decryptRelayLocked.
C3_DecryptOrderIsReadOrder ==
    /\ IsPrefix(decLog, readLog)
    /\ Len(readLog) <= Len(decLog) + 1
    /\ \A t \in Tasks : HoldsRead(t) => rmu = t
    /\ Cardinality({t \in Tasks : HoldsRead(t)}) <= 1

\* C3: one task holds a RELAY cell it has read while another task waits in
\* ReceiveRelay for the read lock, an earlier cell being decrypted already.
C3_Witness ==
    /\ Len(decLog) >= 1
    /\ \E t, u \in Tasks :
          /\ HoldsRead(t)
          /\ inCell[t].cmd = CmdRelay
          /\ pc[u] \in {"rr_lock", "ex_rr_lock"}

\* The RELAY_EARLY cells on the link.
EarlyOut == {i \in 1 .. Len(linkOut) : linkOut[i].cell.cmd = CmdRelayEarly}

\* C4 (SendRelayEarly, Extend): RelayEarlySent never exceeds 8 and at most 8
\* RELAY_EARLY cells reach the link; a call is refused with "RELAY_EARLY
\* budget exhausted" only when eight were allowed before it, and the refused
\* call writes no cell and leaves the counter alone.
C4_RelayEarlyBudget ==
    /\ [](/\ RelayEarlySent <= MaxRelayEarly
          /\ Cardinality(EarlyOut) <= RelayEarlySent
          /\ refused > 0 => RelayEarlySent = MaxRelayEarly)
    /\ [][refused' > refused =>
            /\ RelayEarlySent = MaxRelayEarly
            /\ RelayEarlySent' = RelayEarlySent
            /\ linkOut' = linkOut]_vars

\* C4: eight RELAY_EARLY cells are on the link and a ninth attempt was
\* refused.
C4_Witness == refused > 0 /\ Cardinality(EarlyOut) = MaxRelayEarly

\* C5 (decryptRelayLocked): a hop that finds a zero "recognized" field and a
\* digest that does not match has, after the cell, the db it had before it;
\* and a hop's db is the db of its relay whenever the two have absorbed the
\* same number of cells, so that the relay's next cell verifies.
C5_DigestRolledBack ==
    /\ [][\A t \in Tasks :
            (HoldsRead(t) /\ pc'[t] # pc[t] /\ inCell[t].cmd = CmdRelay) =>
                \A i \in FalseZeroHops(Hops, inCell[t]) :
                    Hops'[i].db = Hops[i].db]_vars
    /\ [](\A i \in 1 .. Len(Hops) :
            Len(Hops[i].db) = Len(relays[i].db) => Hops[i].db = relays[i].db)

\* C5: the cell just decrypted showed a false zero at a hop, and that hop
\* has verified a cell of its relay.
C5_Witness ==
    \E i \in falseZeroAt : i <= Len(Hops) /\ Len(Hops[i].db) > 1

\* The blocks that the df of hop n must hold when the i-th cell of linkOut
\* is built: the seed and the payloads of the cells sent to hop n so far.
RECURSIVE SentBlocks(_, _)
SentBlocks(n, i) ==
    IF i = 0 THEN <<SeedDf(n)>>
    ELSE IF linkOut[i].seq > 0 /\ linkOut[i].cell.hop = n
    THEN Append(SentBlocks(n, i - 1),
                PayloadBlock(linkOut[i].cell.relayCmd, linkOut[i].cell.streamID,
                             linkOut[i].cell.dlen))
    ELSE SentBlocks(n, i - 1)

\* C6 (encryptRelayLocked): the digest in each relay cell sent to a hop is
\* the hash of the hop's seed followed by the payloads of the cells sent to
\* that hop up to and including this one.
C6_DigestOfSentCells ==
    \A i \in EncryptedOut :
        linkOut[i].cell.digest = Sum4(SentBlocks(linkOut[i].cell.hop, i))

\* C7 (Stream.Write): a RELAY_DATA cell is sent only when both send windows
\* are above 0, each cell sent takes exactly one from both windows, and no
\* send window is ever negative.
C7_WriteWithinWindows ==
    /\ [](CircWindow >= 0 /\ StreamWindow >= 0)
    /\ [][dataSent' # dataSent =>
            /\ CircWindow > 0
            /\ StreamWindow > 0
            /\ dataSent' = dataSent + 1
            /\ CircWindow' = CircWindow - 1
            /\ StreamWindow' = StreamWindow - 1]_vars

\* C7: Write has sent cells until the stream-level window stood at 0.
C7_Witness == StreamWindow = 0 /\ dataSent >= initStreamWindow

\* C8 (Stream.Write): a Write that meets a send window of 0 or less returns
\* no error.
C8_WriteNeverRefused == wret # "send window exhausted"

\* C9 (handleDataReceived) as claimed: at every moment each counter is the
\* number of RELAY_DATA cells received modulo its threshold, and one SENDME
\* of each level was sent for every full 100 (circuit) and 50 (stream) cells.
C9_SendmePerThreshold ==
    /\ circDataReceived = dataIn % circSendMeWindow
    /\ circSendmeOut = dataIn \div circSendMeWindow
    /\ streamDataReceived = dataIn % streamSendMeWindow
    /\ streamSendmeOut = dataIn \div streamSendMeWindow

\* C9 (handleDataReceived), amended: as long as no SENDME failed to be sent,
\* each counter is the number of RELAY_DATA cells received modulo its
\* threshold and one SENDME was sent per full 100 (circuit) and 50 (stream)
\* cells; a counter stands at or above its threshold only after a SENDME
\* could not be sent, and never more SENDMEs are sent than thresholds reached.
C9_SendmePerThresholdUnlessSendFails ==
    /\ ~sendmeFailed => C9_SendmePerThreshold
    /\ circDataReceived >= circSendMeWindow => sendmeFailed
    /\ streamDataReceived >= streamSendMeWindow => sendmeFailed
    /\ circSendmeOut <= dataIn \div circSendMeWindow
    /\ streamSendmeOut <= dataIn \div streamSendMeWindow

\* C9: the 100th cell set off the circuit-level SENDME and the second
\* stream-level one, and counting began again with the 101st.
C9_Witness ==
    /\ ~sendmeFailed
    /\ circSendmeOut = 1
    /\ streamSendmeOut = 2
    /\ circDataReceived = 1
    /\ streamDataReceived = 1

\* C10 (Stream.Read, handleDataReceived): the circuit-level send window is
\* at most 1000 plus 100 per circuit-level SENDME received, the stream-level
\* one at most 500 plus 50 per stream-level SENDME received.
C10_WindowsRaisedOnlyBySendmeReceived ==
    /\ CircWindow <= initCircWindow + circSendMeWindow * circSendmeIn
    /\ StreamWindow <= initStreamWindow + streamSendMeWindow * streamSendmeIn

\* ------------------------------------------------- the digest of a SENDME
\* Circuit.BackwardDigest: Sum(nil) of the last hop's db, nil without hops.
BackwardDigest(hops) == IF Len(hops) = 0 THEN << >> ELSE hops[Len(hops)].db

\* Read hands the dlen bytes of RELAY_DATA cell number k to its caller:
\* copy(p, data), the rest appended to s.buf.
ReadDeliver(k, dlen) ==
    /\ buf' = buf + Remainder(rsize, dlen)
    /\ rpc' = "idle"
    /\ rsize' = 0
    /\ rret' = ""
    /\ rdata' = 0
    /\ retCell' = k
    /\ pending' = dlen - Min(rsize, dlen)
    /\ bufCell' = IF Remainder(rsize, dlen) > 0 THEN k ELSE bufCell

\* Stream.Read, one turn of its loop up to handleDataReceived's counters:
\* ReceiveRelay (c.rmu is held from ReadCell to the end of decryptRelayLocked)
\* returns a read error or the next RELAY_DATA cell of the stream; the two
\* counters are incremented.
ReadReceive ==
    /\ rpc = "reading"
    /\ rmu = Unlocked
    /\ \/ /\ ReadReturn("receive relay")
          /\ UNCHANGED <<Hops, relays, readLog, decLog, falseZeroAt, dataIn,
                         circDataReceived, streamDataReceived, buf, trigger, rdata,
                         orderSide>>
       \/ /\ dataIn < dataInCap
          /\ LET j == Len(relays)
                 c == RelayCellFrom(j, RelayData, ID, 1, {}, NextInboundId)
                 d == decryptRelayLocked(Hops, c)
                 cdr == circDataReceived + 1
                 sdr == streamDataReceived + 1
             IN  /\ relays' = RelaysAfter(j, RelayData, ID, 1)
                 /\ Hops' = d.hops
                 /\ readLog' = Append(readLog, c.id)
                 /\ decLog' = Append(decLog, c.id)
                 /\ falseZeroAt' = FalseZeroHops(Hops, c)
                 /\ dataIn' = dataIn + 1
                 /\ IF d.ret.err # ""
                    THEN /\ ReadReturn("receive relay")
                         /\ UNCHANGED <<circDataReceived, streamDataReceived, buf,
                                        trigger, rdata, orderSide>>
                    ELSE /\ circDataReceived' = cdr
                         /\ streamDataReceived' = sdr
                         /\ trigger' = BackwardDigest(d.hops)
                         /\ IF SendMeDue(cdr, circSendMeWindow)
                            THEN /\ rpc' = "circ_digest"
                                 /\ rdata' = d.ret.dlen
                                 /\ UNCHANGED <<buf, rsize, rret, orderSide>>
                            ELSE IF SendMeDue(sdr, streamSendMeWindow)
                            THEN /\ rpc' = "stream_digest"
                                 /\ rdata' = d.ret.dlen
                                 /\ UNCHANGED <<buf, rsize, rret, orderSide>>
                            ELSE ReadDeliver(dataIn + 1, d.ret.dlen)
    /\ UNCHANGED <<pc, wmu, rmu, RelayEarlySent, outCell, inCell, ret, refused,
                   linkOut, linkBroken, inboundSeen, inboundCap, callsLeft,
                   earlyLeft, encLog, unlocked, lateRecv>>
    /\ UNCHANGED <<CircWindow, StreamWindow, closed, eof, wpc, wleft, wsize, wtotal, wlog, wret,
                   dataSent, endSent, endLog, closeRet, circSendmeOut,
                   streamSendmeOut, sendmeFailed, circSendmeIn, streamSendmeIn, sendmeDigest, sendmeLog>>
    /\ UNCHANGED <<streamCaps, linkVars, restVars, beginSide>>

\* handleDataReceived: digest := s.Circuit.BackwardDigest(), which takes
\* c.rmu for itself.
SendmeDigest ==
    /\ rpc \in {"circ_digest", "stream_digest"}
    /\ rmu = Unlocked
    /\ sendmeDigest' = BackwardDigest(Hops)
    /\ rpc' = IF rpc = "circ_digest" THEN "circ_send" ELSE "stream_send"
    /\ UNCHANGED <<CircWindow, StreamWindow, buf, closed, eof, circDataReceived,
                   streamDataReceived, wpc, wleft, wsize, wtotal, wlog, wret, rsize, rret, dataSent,
                   endSent, endLog, closeRet,
                   circSendmeOut, streamSendmeOut, sendmeFailed, dataIn,
                   circSendmeIn, streamSendmeIn, trigger, rdata, sendmeLog>>
    /\ UNCHANGED <<streamCaps, linkVars, restVars, orderSide, beginSide, circuitVars>>

\* handleDataReceived: SendRelay(RelaySendMe, id, sendMeV1(digest)) under
\* c.wmu; on success the window is raised and the counter reset, and the
\* stream-level test follows the circuit-level one.
SendmeSend ==
    /\ rpc \in {"circ_send", "stream_send"}
    /\ wmu = Unlocked
    /\ \E ok \in WriteOutcomes :
        LET circ == rpc = "circ_send"
            streamID == IF circ THEN 0 ELSE ID
            r == encryptRelayLocked(Hops, RelaySendMe, streamID, sendMeV1Len)
            sent == [level |-> IF circ THEN "circuit" ELSE "stream",
                     digest |-> sendmeDigest, trigger |-> trigger]
        IN  /\ Hops' = r.hops
            /\ encLog' = Append(encLog, EncEntry(Hops, RelaySendMe, streamID, sendMeV1Len))
            /\ WriteCell(r.cell, Len(encLog) + 1, ok)
            /\ IF ~ok
               THEN /\ sendmeFailed' = TRUE
                    /\ ReadReturn(IF circ THEN "send circuit SENDME"
                                           ELSE "send stream SENDME")
                    /\ rdata' = 0
                    /\ UNCHANGED <<CircWindow, StreamWindow, circDataReceived,
                                   streamDataReceived, circSendmeOut,
                                   streamSendmeOut, buf, sendmeLog, orderSide>>
               ELSE /\ sendmeLog' = Append(sendmeLog, sent)
                    /\ UNCHANGED sendmeFailed
                    /\ IF circ
                       THEN /\ CircWindow' = CircWindow + circSendMeWindow
                            /\ circDataReceived' = 0
                            /\ circSendmeOut' = circSendmeOut + 1
                            /\ UNCHANGED <<StreamWindow, streamDataReceived,
                                           streamSendmeOut>>
                            /\ IF SendMeDue(streamDataReceived, streamSendMeWindow)
                               THEN /\ rpc' = "stream_digest"
                                    /\ UNCHANGED <<buf, rsize, rret, rdata, orderSide>>
                               ELSE ReadDeliver(dataIn, rdata)
                       ELSE /\ StreamWindow' = StreamWindow + streamSendMeWindow
                            /\ streamDataReceived' = 0
                            /\ streamSendmeOut' = streamSendmeOut + 1
                            /\ UNCHANGED <<CircWindow, circDataReceived,
                                           circSendmeOut>>
                            /\ ReadDeliver(dataIn, rdata)
    /\ UNCHANGED <<pc, wmu, rmu, RelayEarlySent, outCell, inCell, ret, refused,
                   relays, inboundSeen, inboundCap, callsLeft, earlyLeft,
                   readLog, decLog, unlocked, falseZeroAt, lateRecv>>
    /\ UNCHANGED <<closed, eof, wpc, wleft, wsize, wtotal, wlog, wret, dataSent, endSent, endLog,
                   closeRet, dataIn,
                   circSendmeIn, streamSendmeIn, trigger, sendmeDigest>>
    /\ UNCHANGED <<streamCaps, linkVars, restVars, beginSide>>

\* A stream that reads MaxDataInSendme RELAY_DATA cells while another task
\* calls ReceiveRelay on the same circuit.
InitSendme ==
    /\ InitCircuit
    /\ InitStream(MaxDataInSendme, 0)
    /\ callsLeft = MaxInboundW
    /\ earlyLeft = 0
    /\ inboundCap = MaxInboundW

NextSendme ==
    \/ ReadCall
    \/ ReadReceive
    \/ SendmeDigest
    \/ SendmeSend
    \/ \E t \in Tasks :
        \/ ReceiveRelayCall(t)
        \/ ReceiveRelayRead(t)
        \/ ReceiveRelayHandle(t)

SpecSendme == InitSendme /\ [][NextSendme]_vars

\* C11: the digest carried in every SENDME is the last hop's running
\* backward digest as it stood right after absorbing the RELAY_DATA cell that
\* triggered the SENDME, whatever another task receives meanwhile.
C11_SendmeDigestOfTrigger ==
    \A i \in 1 .. Len(sendmeLog) : sendmeLog[i].digest = sendmeLog[i].trigger

Uint16(raw) == raw % (MaxStreamID + 1)

\* Begin calls made on other circuits of the process between two steps of
\* this one: each adds one to nextStreamID.
ElsewhereBursts == {1, MaxStreamID - 1, MaxStreamID}

\* Begin returns to the application: the stream or nil, and the error with
\* the reason it names.
BeginResult(t, stream, err, reason) ==
    /\ bpc' = [bpc EXCEPT ![t] = "idle"]
    /\ bret' = [bret EXCEPT ![t] = [stream |-> stream, err |-> err,
                                     reason |-> reason]]
    /\ bid' = [bid EXCEPT ![t] = 0]

\* Begin returns nil and the error err.
BeginReturn(t, err) == BeginResult(t, NoStream, err, 0)

\* What no step of Begin changes: the stream that is already there.
beginFrame == <<CircWindow, StreamWindow, buf, closed, eof, circDataReceived,
                streamDataReceived, wpc, wleft, wsize, wtotal, wlog, wret, rpc, rsize, rret,
                dataSent, endSent, endLog, closeRet, circSendmeOut, streamSendmeOut, sendmeFailed, dataIn,
                circSendmeIn, streamSendmeIn, streamCaps, linkVars, restVars,
                sendmeSide, orderSide>>

\* Begin, one turn of its first loop: raw := nextStreamID.Add(1) - 1;
\* id = uint16(raw); leave the loop with an id that is not 0, fail at id 0
\* once raw has passed 0xFFFF.
BeginAlloc(t) ==
    /\ \/ /\ bpc[t] = "idle"
          /\ beginsLeft > 0
          /\ beginsLeft' = beginsLeft - 1
       \/ /\ bpc[t] = "alloc"
          /\ UNCHANGED beginsLeft
    /\ LET raw == nextStreamID
           id == Uint16(raw)
       IN  /\ nextStreamID' = nextStreamID + 1
           /\ IF id # 0
              THEN /\ bpc' = [bpc EXCEPT ![t] = "send"]
                   /\ bid' = [bid EXCEPT ![t] = id]
                   /\ UNCHANGED bret
              ELSE IF raw > MaxStreamID
              THEN BeginReturn(t, "stream ID space exhausted")
              ELSE /\ bpc' = [bpc EXCEPT ![t] = "alloc"]
                   /\ UNCHANGED <<bid, bret>>
    /\ UNCHANGED <<live, droppedLive, firstReply, elsewhereLeft, beginFrame,
                   circuitVars>>

\* Begin: circ.SendRelay(circuit.RelayBegin, id, payload).
BeginSend(t) ==
    /\ bpc[t] = "send"
    /\ \E ok \in WriteOutcomes :
        /\ linkBroken' = (linkBroken \/ ~ok)
        /\ IF ok
           THEN /\ bpc' = [bpc EXCEPT ![t] = "wait"]
                /\ firstReply' = [firstReply EXCEPT ![t] = NoReply]
                /\ UNCHANGED <<bid, bret>>
           ELSE /\ BeginReturn(t, "send RELAY_BEGIN")
                /\ UNCHANGED firstReply
    /\ UNCHANGED <<nextStreamID, live, droppedLive, beginsLeft, elsewhereLeft,
                   beginFrame, circuitQuiet>>

\* What ReceiveRelay returns to the Begin of task t.
BeginResults(t) ==
    {RecvErr} \cup
    {RecvCell(c, sid, 1) :
        c \in {RelayData, RelayEnd, RelayConnected}, sid \in {ID, bid[t]}}

\* Begin's switch on the command of a cell that carries its id.
BeginSwitch(relayCmd) ==
    IF relayCmd = RelayConnected THEN "connected"
    ELSE IF relayCmd = RelayEnd THEN "end"
    ELSE "default"

\* Begin's reading of a RELAY_END cell: data[0], 0 without data.
EndReason(data) == IF Len(data) > 0 THEN data[1] ELSE 0

\* &Stream{ID: id, Circuit: circ, CircWindow: 1000, StreamWindow: 500}.
NewStream(id) == [ID |-> id, CircWindow |-> 1000, StreamWindow |-> 500]

\* Begin, one turn of its second loop: ReceiveRelay; a cell of another
\* stream id is ignored, RELAY_CONNECTED makes the stream, anything else is
\* an error.
BeginWait(t) ==
    /\ bpc[t] = "wait"
    /\ \E r \in BeginResults(t) :
        \E data \in IF ~r.err /\ r.relayCmd = RelayEnd
                     THEN EndData ELSE {<< >>} :
        /\ firstReply' = IF r.err THEN firstReply
                         ELSE Replied(r.streamID, r.relayCmd, data)
        /\ IF r.err
           THEN /\ BeginReturn(t, "receive relay response")
                /\ UNCHANGED <<live, droppedLive>>
           ELSE IF r.streamID # bid[t]
           THEN /\ droppedLive' = IF BagIn(r.streamID, live)
                                  THEN droppedLive \cup {r.streamID}
                                  ELSE droppedLive
                /\ UNCHANGED <<live, bpc, bid, bret>>
           ELSE IF BeginSwitch(r.relayCmd) = "connected"
           THEN /\ live' = live (+) SetToBag({bid[t]})
                /\ BeginResult(t, NewStream(bid[t]), "", 0)
                /\ UNCHANGED droppedLive
           ELSE IF BeginSwitch(r.relayCmd) = "end"
           THEN /\ BeginResult(t, NoStream, "stream rejected", EndReason(data))
                /\ UNCHANGED <<live, droppedLive>>
           ELSE /\ BeginReturn(t, "unexpected relay command")
                /\ UNCHANGED <<live, droppedLive>>
    /\ UNCHANGED <<nextStreamID, beginsLeft, elsewhereLeft, beginFrame, circuitVars>>

\* Begin is called n times on other circuits of the process.
BeginElsewhere ==
    /\ elsewhereLeft > 0
    /\ elsewhereLeft' = elsewhereLeft - 1
    /\ \E n \in ElsewhereBursts : nextStreamID' = nextStreamID + n
    /\ UNCHANGED <<live, droppedLive, firstReply, bpc, bid, bret, beginsLeft,
                   beginFrame, circuitVars>>

\* A circuit with one stream on which Begin is called MaxBeginCalls times
\* while the stream is read; the relay sends that stream no RELAY_DATA.
InitBegin ==
    /\ InitCircuitUnderStream
    /\ InitStreamBegins(0, 0, MaxBeginCalls, MaxElsewhere)

NextBegin ==
    \/ ReadCall
    \/ ReadCell
    \/ BeginElsewhere
    \/ \E t \in Tasks :
        \/ BeginAlloc(t)
        \/ BeginSend(t)
        \/ BeginWait(t)

SpecBegin == InitBegin /\ [][NextBegin]_vars

\* C13: a relay cell that carries the id of a live stream and is pulled
\* from the circuit by another stream's Read, or by a Begin that waits, is
\* delivered to its stream: a cell is dropped only if no live stream has
\* its id.
C13_CellsOfLiveStreamsDelivered == droppedLive = {}

\* C14: no two live streams of the circuit have the same id, and no stream
\* has id 0, for Begin calls made concurrently and across the wrap of the
\* 16-bit id.
C14_LiveStreamIdsDistinct ==
    /\ \A id \in BagToSet(live) : id # 0 /\ CopiesIn(id, live) = 1
    /\ \A t \in Tasks : bpc[t] \in {"send", "wait"} => bid[t] # 0

\* ------------------------------------------------------- DESTROY cells
\* C15: after Destroy has written its DESTROY cell, every receive begun on
\* the circuit returns the circuit-destroyed error and delivers no relay
\* cell, whatever cell it takes from the link.
C15_NoReceiveAfterDestroy ==
    [][\A t \in lateRecv :
        (pc[t] \in {"rr_have", "ex_rr_have"} /\ pc'[t] # pc[t]) =>
            LET r == ReceiveRelayResult(Hops, inCell[t])
            IN  r.loop \/ r.ret.err = "circuit destroyed by relay"]_vars

\* C16: a DESTROY cell that arrives for a pending receive makes that receive
\* return the circuit-destroyed error with the cell's reason byte and no
\* relay data; the hops are left as they were and c.rmu is released.
C16_DestroyEndsPendingReceive ==
    [][\A t \in Tasks :
        (/\ pc[t] \in {"rr_have", "ex_rr_have"}
         /\ inCell[t].cmd = CmdDestroy
         /\ pc'[t] # pc[t]) =>
            LET r == ReceiveRelayResult(Hops, inCell[t])
            IN  /\ ~r.loop
                /\ r.ret.err = "circuit destroyed by relay"
                /\ r.ret.reason = inCell[t].reason
                /\ r.ret.relayCmd = 0
                /\ r.ret.streamID = 0
                /\ r.ret.dlen = 0
                /\ Hops' = Hops
                /\ rmu' = Unlocked
                /\ IF pc[t] = "ex_rr_have"
                   THEN pc'[t] = "ex_parse" /\ ret'[t] = r.ret
                   ELSE pc'[t] = "idle"]_vars

\* Extend's ReceiveRelay returned the error of a DESTROY cell with reason 1.
C16_Witness ==
    \E t \in Tasks :
        /\ pc[t] = "ex_parse"
        /\ ret[t].err = "circuit destroyed by relay"
        /\ ret[t].reason = 1

\* ------------------------------------------------ building a circuit
\* The link on which Create is called MaxCreates more times.
InitCreate ==
    /\ InitCircuitCreates(MaxCreates)
    /\ InitStream(0, 0)
    /\ callsLeft = 0
    /\ earlyLeft = 0
    /\ inboundCap = 0

NextCreate ==
    \/ CreateCall
    \/ CreateAlloc
    \/ CreateSend
    \/ CreateRead
    \/ DestroyCreated

SpecCreate == InitCreate /\ [][NextCreate]_vars

\* A link on which Create is called and the first circuit is extended.
InitBuild ==
    /\ InitCircuitCreates(MaxCreates)
    /\ InitStream(0, 0)
    /\ callsLeft = MaxInboundW
    /\ earlyLeft = 0
    /\ inboundCap = MaxInboundW

NextBuild ==
    \/ CreateCall
    \/ CreateAlloc
    \/ CreateSend
    \/ CreateRead
    \/ \E t \in Tasks :
        \/ ExtendEncrypt(t)
        \/ ExtendWrite(t)
        \/ ReceiveRelayRead(t)
        \/ ReceiveRelayHandle(t)
        \/ ExtendParse(t)
        \/ ExtendAddHop(t)

SpecBuild == InitBuild /\ [][NextBuild]_vars

\* A DESTROY cell for circuit id has been written to the link.
DestroyWritten(out, id) ==
    \E i \in 1 .. Len(out) : out[i].cell = CircuitCell(CmdDestroy, id)

\* C17: when Create fails after its CREATE2 was written, or Extend fails
\* after its EXTEND2 was written, a DESTROY cell for the circuit's id is on
\* the link by the time the error is returned.
C17_DestroyOnFailedBuild ==
    [][/\ (cpc = "read" /\ cpc' = "idle" /\ createErr' # "")
            => DestroyWritten(linkOut', circID)
       /\ \A t \in Tasks :
            (pc[t] = "ex_parse" /\ pc'[t] = "idle")
                => DestroyWritten(linkOut', FirstCircID)]_vars

\* A deadline of at most DeadlineSeconds is armed on the link.
Armed(d) == d \in 1 .. DeadlineSeconds

\* C29: while Create waits for CREATED2 and while an Extend waits for
\* EXTENDED2 a deadline of at most 30 seconds is armed on the link, and the
\* deadline is not cleared by Create's return, which leaves a circuit of one
\* hop that is still to be extended.
C29_DeadlineArmedWhileBuilding ==
    /\ [](cpc = "read" => Armed(deadline))
    /\ [](\A t \in Tasks : InExtend(t) => Armed(deadline))
    /\ [][(cpc # "idle" /\ cpc' = "idle") =>
            ~(Armed(deadline) /\ deadline' = NoDeadline)]_vars

\* C18: every id Create assigns has its top bit set and is none of the ids
\* claimed on the link at that moment, so no id is held by two circuits; the
\* ids of the circuits stay claimed; and after MaxClaimAttempts candidates
\* in a row that were all claimed already Create fails without a circuit.
C18_CircuitIdsUnique ==
    /\ [](\A id \in circuits : id.msb = 1 /\ id \in CircIDs)
    /\ [](attempts <= MaxClaimAttempts)
    /\ [][/\ (cpc = "alloc" /\ cpc' = "send")
               => (/\ circID'.msb = 1
                   /\ circID' \notin CircIDs
                   /\ circID' \notin circuits
                   /\ CircIDs' = CircIDs \cup {circID'})
          /\ (cpc = "alloc" /\ attempts' = attempts + 1)
               => (\E w \in RandomWords : SetMSB(w) \in CircIDs) /\ CircIDs' = CircIDs
          /\ (cpc = "alloc" /\ attempts = MaxClaimAttempts)
               => (/\ cpc' = "idle"
                   /\ createErr' = "failed to allocate unique circuit ID after 16 attempts"
                   /\ circuits' = circuits
                   /\ CircIDs' = CircIDs)
          /\ (cpc = "read" /\ cpc' = "idle" /\ createErr' = "")
               => (circID \notin circuits /\ circuits' = circuits \cup {circID})
          /\ CircIDs \subseteq CircIDs']_vars

\* Create gave up after 16 colliding candidates on a link that carries two
\* circuits.
C18_Witness ==
    /\ createErr = "failed to allocate unique circuit ID after 16 attempts"
    /\ Cardinality(circuits) = 2
    /\ cpc = "idle"

\* ------------------------------------------------------- the end of a stream
\* C19 (Stream.Read): once a RELAY_END of the stream's id has been received,
\* the Read that received it has returned the end-of-stream signal and is no
\* longer inside its loop; from then on eof stays set, every Read returns the
\* end-of-stream signal whether or not the stream was closed meanwhile, and
\* no Read enters its loop or takes a cell from the circuit.
C19_EndOfStreamIsFinal ==
    /\ [](eof => (rpc = "idle" /\ rret = "EOF"))
    /\ [][eof => /\ eof'
                 /\ rpc' = "idle"
                 /\ rret' = "EOF"
                 /\ UNCHANGED <<buf, dataIn, circSendmeIn, streamSendmeIn,
                                circDataReceived, streamDataReceived,
                                droppedLive>>]_vars

\* RELAY_END was received on a stream that is closed as well, and Read has
\* returned the end-of-stream signal.
C19_Witness == eof /\ closed /\ rpc = "idle" /\ rret = "EOF"

\* ------------------------------------------------------------ Stream.Close
\* C20 (Stream.Close), as the code has it: at most one RELAY_END is sent, it
\* carries the stream's id and the reason 6, and it is sent by the call that
\* closes the stream, which returns nil exactly when the cell was written;
\* a Close of a closed stream sends nothing and returns nil.
C20_CloseSendsAtMostOneEnd ==
    /\ [](/\ endSent <= 1
          /\ Len(endLog) = endSent
          /\ endSent = 1 => closed
          /\ \A i \in 1 .. Len(endLog) :
                /\ endLog[i].relayCmd = RelayEnd
                /\ endLog[i].streamID = ID
                /\ endLog[i].data = <<relayEndReasonDone>>)
    /\ [][closed => /\ closed'
                    /\ endSent' = endSent
                    /\ endLog' = endLog
                    /\ closeRet' \in {closeRet, ""}]_vars
    /\ [][(~closed /\ closed') =>
            \/ endSent' = 1 /\ closeRet' = ""
            \/ endSent' = 0 /\ closeRet' # ""]_vars

\* The first Close failed to write its RELAY_END and a later Close has
\* returned nil: no RELAY_END was sent at all.
C20_Witness == closed /\ endSent = 0 /\ closeRet = "" /\ linkBroken

\* C20 as stated: whenever Close has been called, exactly one RELAY_END has
\* been sent.
C20_ExactlyOneEnd == closed => endSent = 1

\* --------------------------------------------------------- a closed stream
\* C21 (Stream.Write, Stream.Read): on a closed stream no Write is under
\* way; a Write called on it returns "stream closed" and a Read called on
\* it returns "stream closed", or the end-of-stream signal when RELAY_END
\* came first; neither enters its loop, so no relay cell is sent, no cell
\* is taken from the circuit, buf keeps its bytes and both send windows
\* keep their values; no RELAY_DATA is sent once the stream is closed.
C21_ClosedStreamRefusesIO ==
    /\ [](closed => wpc = "idle")
    /\ [][closed => dataSent' = dataSent]_vars
    /\ [][(closed /\ WriteCall) =>
            /\ wret' = "stream closed"
            /\ wpc' = "idle"
            /\ UNCHANGED <<CircWindow, StreamWindow, dataSent, endSent,
                           dataIn, circSendmeIn, streamSendmeIn,
                           circSendmeOut, streamSendmeOut, linkBroken>>]_vars
    /\ [][(closed /\ ReadCall) =>
            /\ rret' \in {"stream closed", "EOF"}
            /\ rpc' = "idle"
            /\ UNCHANGED <<CircWindow, StreamWindow, buf, dataSent, endSent,
                           dataIn, circSendmeIn, streamSendmeIn,
                           circSendmeOut, streamSendmeOut, linkBroken>>]_vars

\* Close was called, and a Write and a Read called after it have both
\* returned "stream closed".
C21_Witness ==
    closed /\ wret = "stream closed" /\ rret = "stream closed" /\ rpc = "idle"

\* ------------------------------------------------------ Begin and its reply
\* C22 (Begin): a Begin that returns from its wait returns a stream exactly
\* when the first relay cell with its id that came from the circuit after
\* RELAY_BEGIN is RELAY_CONNECTED, and the stream-rejected error with that
\* cell's reason when it is RELAY_END; the stream it returns has the id of
\* the Begin, circuit window 1000 and stream window 500.
C22_BeginFollowsFirstReply ==
    [][\A t \in Tasks :
        (bpc[t] = "wait" /\ bpc'[t] = "idle") =>
            /\ (bret'[t].err = "") <=> (firstReply'[t].relayCmd = RelayConnected)
            /\ firstReply'[t].relayCmd = RelayEnd =>
                /\ bret'[t].err = "stream rejected"
                /\ bret'[t].reason = EndReason(firstReply'[t].data)
            /\ bret'[t].err = "" =>
                bret'[t].stream = [ID |-> bid[t], CircWindow |-> initCircWindow,
                                   StreamWindow |-> initStreamWindow]
            /\ bret'[t].err # "" => bret'[t].stream = NoStream]_vars

\* -------------------------------------------- ConnectOnionService, its steps
\* What the steps of ConnectOnionService leave alone.
onionQuiet == <<circuitVars, streamVars, linkVars, besideOnion, IntroPoints,
                connectsLeft>>

\* The local steps and the calls into the builder and the circuit succeed or
\* fail.
Outcomes == {TRUE, FALSE}

\* The relay commands of the cells a circuit hands to the connect.
OnionReplies == {RelayData, RelayRendezvous2, RelayRendezvousEstablished,
                 RelayIntroduceAck}

\* ackData of the INTRODUCE_ACK cells an introduction point sends: nothing,
\* one byte, a status of two bytes, a status followed by extensions.
AckData == {<< >>, <<0>>, <<1>>, <<0, 0>>, <<0, 1>>, <<1, 0>>, <<0, 0, 0>>}

\* rend2Data, by what CompleteRendezvous makes of it: shorter than 64 bytes,
\* a SERVER_PK that gives an all-zeros point, an AUTH that does not verify,
\* or SERVER_PK and AUTH of the service.
Rend2Data == {"short", "zero point", "bad auth", "good"}

\* LinkCloser.Close() of a link that was built.
Closed(link) == IF link = "none" THEN "none" ELSE "closed"

\* ConnectOnionService returns err ("ok": the stream); with closeRend it
\* has called rendBuilt.LinkCloser.Close() before.
OnionReturn(err, closeRend) ==
    /\ opc' = "returned"
    /\ oret' = err
    /\ streamOpen' = (err = "ok")
    /\ rendLink' = IF closeRend THEN Closed(rendLink) ELSE rendLink

\* ConnectOnionService is called.
OnionCall ==
    /\ opc = "idle"
    /\ connectsLeft > 0
    /\ connectsLeft' = connectsLeft - 1
    /\ opc' = "resolve"
    /\ UNCHANGED <<circuitVars, streamVars, linkVars, besideOnion, IntroPoints,
                   ipIdx, lastIntroErr, rendLink, rendHops, introLinks, ackCell,
                   rend2Cell, oret, streamOpen, tried, triedErr, verified,
                   beginHops>>

\* 1 and 2: ResolveOnionService, then builder.BuildCircuit(nil) for the
\* rendezvous circuit of three hops.
OnionBuildRend ==
    /\ opc = "resolve"
    /\ \E resolved \in Outcomes, built \in Outcomes :
        IF ~resolved
        THEN /\ OnionReturn("resolve onion service", FALSE)
             /\ UNCHANGED rendHops
        ELSE IF ~built
        THEN /\ OnionReturn("build rendezvous circuit", FALSE)
             /\ UNCHANGED rendHops
        ELSE /\ opc' = "establish"
             /\ rendLink' = "open"
             /\ rendHops' = 3
             /\ UNCHANGED <<oret, streamOpen>>
    /\ UNCHANGED <<onionQuiet, ipIdx, lastIntroErr, introLinks, ackCell,
                   rend2Cell, tried, triedErr, verified, beginHops>>

\* 3: GenerateRendezvousCookie and SendRelay of ESTABLISH_RENDEZVOUS.
OnionEstablish ==
    /\ opc = "establish"
    /\ \E cookie \in Outcomes, sent \in Outcomes :
        IF ~cookie
        THEN OnionReturn("generate cookie", TRUE)
        ELSE IF ~sent
        THEN OnionReturn("send ESTABLISH_RENDEZVOUS", TRUE)
        ELSE /\ opc' = "established"
             /\ UNCHANGED <<oret, streamOpen, rendLink>>
    /\ UNCHANGED <<onionQuiet, ipIdx, lastIntroErr, rendHops, introLinks,
                   ackCell, rend2Cell, tried, triedErr, verified, beginHops>>

\* 4 and 5: ReceiveRelay on the rendezvous circuit must give
\* RENDEZVOUS_ESTABLISHED; then BuildRendLinkSpecs.
OnionEstablished ==
    /\ opc = "established"
    /\ \/ OnionReturn("receive RENDEZVOUS_ESTABLISHED", TRUE)
       \/ \E relayCmd \in OnionReplies, specs \in Outcomes :
            IF relayCmd # RelayRendezvousEstablished
            THEN OnionReturn("expected RENDEZVOUS_ESTABLISHED", TRUE)
            ELSE IF ~specs
            THEN OnionReturn("build rend link specs", TRUE)
            ELSE /\ opc' = "loop"
                 /\ UNCHANGED <<oret, streamOpen, rendLink>>
    /\ UNCHANGED <<onionQuiet, ipIdx, lastIntroErr, rendHops, introLinks,
                   ackCell, rend2Cell, tried, triedErr, verified, beginHops>>

\* A loop that gives up at the first introduction point that fails.
LoopStopsAtFailure(idx, err) == IF err = "" THEN "begin" ELSE "failed"

\* 6, for ipIdx, ip := range result.IntroPoints: where the loop goes when
\* tryIntroPoint has returned err for the point idx: on to stream.Begin
\* after nil, else to the next turn ("continue").
LoopAfter(idx, err) == IF err = "" THEN "begin" ELSE "loop"

\* A tryIntroPoint whose deferred Close is missing.
LinksLeftOpen(links, built) == links

\* defer func() { _ = introBuilt.LinkCloser.Close() }(): the link of the
\* intro circuit of this call, if it was built, is closed when
\* tryIntroPoint returns.
LinksAtReturn(links, built) ==
    IF built THEN [links EXCEPT ![Len(links)] = "closed"] ELSE links

\* tryIntroPoint returns err; built tells whether BuildCircuit had
\* succeeded.
IntroReturn(err, built) ==
    /\ triedErr' = Append(triedErr, err)
    /\ introLinks' = LinksAtReturn(introLinks, built)
    /\ lastIntroErr' = IF err = "" THEN lastIntroErr ELSE err
    /\ ipIdx' = IF err = "" THEN ipIdx ELSE ipIdx + 1
    /\ IF LoopAfter(ipIdx, err) = "failed"
       THEN OnionReturn("all introduction points failed", TRUE)
       ELSE /\ opc' = LoopAfter(ipIdx, err)
            /\ UNCHANGED <<oret, streamOpen, rendLink>>

\* 6: the head of the loop: tryIntroPoint is called for the next
\* introduction point, up to builder.BuildCircuit(introInfo); after the
\* last one the rendezvous link is closed and the connect fails.
OnionLoop ==
    /\ opc = "loop"
    /\ IF ipIdx >= IntroPoints
       THEN /\ OnionReturn("all introduction points failed", TRUE)
            /\ UNCHANGED <<ipIdx, lastIntroErr, introLinks, ackCell, rend2Cell,
                           tried, triedErr, verified>>
       ELSE /\ tried' = Append(tried, ipIdx)
            /\ ackCell' = NoCellYet
            /\ rend2Cell' = NoCellYet
            /\ verified' = FALSE
            /\ \E parsed \in Outcomes, built \in Outcomes :
                IF ~parsed
                THEN IntroReturn("parse link specifiers", FALSE)
                ELSE IF ~built
                THEN IntroReturn("build intro circuit", FALSE)
                ELSE /\ introLinks' = Append(introLinks, "open")
                     /\ opc' = "introduce1"
                     /\ UNCHANGED <<ipIdx, lastIntroErr, triedErr, oret,
                                    streamOpen, rendLink>>
    /\ UNCHANGED <<onionQuiet, rendHops, beginHops>>

\* tryIntroPoint: BuildINTRODUCE1 and SendRelay of INTRODUCE1 on the intro
\* circuit.
IntroSend ==
    /\ opc = "introduce1"
    /\ \E payload \in Outcomes, sent \in Outcomes :
        IF ~payload
        THEN IntroReturn("build INTRODUCE1", TRUE)
        ELSE IF ~sent
        THEN IntroReturn("send INTRODUCE1", TRUE)
        ELSE /\ opc' = "ack"
             /\ UNCHANGED <<ipIdx, lastIntroErr, introLinks, triedErr, oret,
                            streamOpen, rendLink>>
    /\ UNCHANGED <<onionQuiet, rendHops, ackCell, rend2Cell, tried, verified,
                   beginHops>>

\* uint16(ackData[0])<<8 | uint16(ackData[1]).
AckStatus(ackData) == ackData[1] * 256 + ackData[2]

\* tryIntroPoint's reading of the reply on the intro circuit: the error it
\* returns, "" when it goes on to wait for RENDEZVOUS2.
AckError(relayCmd, ackData) ==
    IF relayCmd # RelayIntroduceAck THEN "expected INTRODUCE_ACK"
    ELSE IF Len(ackData) >= 2 /\ AckStatus(ackData) # 0
    THEN "INTRODUCE_ACK status"
    ELSE ""

\* tryIntroPoint: ReceiveRelay on the intro circuit and the test of the
\* reply.
IntroAck ==
    /\ opc = "ack"
    /\ \/ /\ IntroReturn("receive INTRODUCE_ACK", TRUE)
          /\ UNCHANGED ackCell
       \/ \E relayCmd \in OnionReplies, ackData \in AckData :
            /\ ackCell' = [relayCmd |-> relayCmd, data |-> ackData]
            /\ IF AckError(relayCmd, ackData) # ""
               THEN IntroReturn(AckError(relayCmd, ackData), TRUE)
               ELSE /\ opc' = "rendezvous2"
                    /\ UNCHANGED <<ipIdx, lastIntroErr, introLinks, triedErr,
                                   oret, streamOpen, rendLink>>
    /\ UNCHANGED <<onionQuiet, rendHops, rend2Cell, tried, verified, beginHops>>

\* A wait that takes whatever cell comes for RENDEZVOUS2.
AnyCellExpected(relayCmd) == TRUE

\* tryIntroPoint's test of the cell it waited for on the rendezvous circuit.
Rendezvous2Expected(relayCmd) == relayCmd = RelayRendezvous2

\* CompleteRendezvous: the length test, then HsNtorClientCompleteHandshake
\* with its all-zeros test and its comparison of AUTH.
CompleteRendezvous(rend2Data) ==
    IF rend2Data = "short" THEN "RENDEZVOUS2 body too short"
    ELSE IF rend2Data = "zero point" THEN "hs-ntor complete"
    ELSE IF rend2Data = "bad auth" THEN "hs-ntor complete"
    ELSE ""

\* tryIntroPoint: ReceiveRelay on the rendezvous circuit, CompleteRendezvous,
\* initOnionHop and AddHop; then it returns nil.
IntroRendezvous2 ==
    /\ opc = "rendezvous2"
    /\ \/ /\ IntroReturn("receive RENDEZVOUS2", TRUE)
          /\ UNCHANGED <<rend2Cell, verified, rendHops>>
       \/ \E relayCmd \in OnionReplies, rend2Data \in Rend2Data,
             hop \in Outcomes :
            /\ rend2Cell' = [relayCmd |-> relayCmd, data |-> rend2Data]
            /\ IF ~Rendezvous2Expected(relayCmd)
               THEN /\ IntroReturn("expected RENDEZVOUS2", TRUE)
                    /\ UNCHANGED <<verified, rendHops>>
               ELSE IF CompleteRendezvous(rend2Data) # ""
               THEN /\ IntroReturn("complete rendezvous", TRUE)
                    /\ UNCHANGED <<verified, rendHops>>
               ELSE /\ verified' = TRUE
                    /\ IF ~hop
                       THEN /\ IntroReturn("init onion hop", TRUE)
                            /\ UNCHANGED rendHops
                       ELSE /\ rendHops' = rendHops + 1
                            /\ IntroReturn("", TRUE)
    /\ UNCHANGED <<onionQuiet, ackCell, tried, beginHops>>

\* After the first tryIntroPoint that returns nil: stream.Begin on the
\* rendezvous circuit; its stream is returned with the rendezvous link for
\* its Close, its error after the link was closed.
OnionBegin ==
    /\ opc = "begin"
    /\ beginHops' = rendHops
    /\ \E begun \in Outcomes :
        IF begun
        THEN OnionReturn("ok", FALSE)
        ELSE OnionReturn("stream begin", TRUE)
    /\ UNCHANGED <<onionQuiet, ipIdx, lastIntroErr, rendHops, introLinks,
                   ackCell, rend2Cell, tried, triedErr, verified>>

\* onionStream.Close: Stream.Close, then linkCloser.Close().
OnionStreamClose ==
    /\ opc = "returned"
    /\ streamOpen
    /\ streamOpen' = FALSE
    /\ rendLink' = Closed(rendLink)
    /\ UNCHANGED <<onionQuiet, opc, ipIdx, lastIntroErr, rendHops, introLinks,
                   ackCell, rend2Cell, oret, tried, triedErr, verified,
                   beginHops>>

\* One connect to an onion service with up to MaxIntroPoints introduction
\* points.
InitConnect ==
    /\ InitLink(0)
    /\ InitStream(0, 0)
    /\ callsLeft = 0
    /\ earlyLeft = 0
    /\ inboundCap = 0
    /\ InitOnion(1)
    /\ InitHandshake(0)
    /\ InitNtor(0)
    /\ InitApart

NextConnect ==
    \/ OnionCall
    \/ OnionBuildRend
    \/ OnionEstablish
    \/ OnionEstablished
    \/ OnionLoop
    \/ IntroSend
    \/ IntroAck
    \/ IntroRendezvous2
    \/ OnionBegin
    \/ OnionStreamClose

SpecConnect == InitConnect /\ [][NextConnect]_vars

\* The last tryIntroPoint call has returned, with an error.
LastTryFailed ==
    /\ Len(tried) > 0
    /\ Len(triedErr) = Len(tried)
    /\ triedErr[Len(triedErr)] # ""

\* C23 (ConnectOnionService): the introduction points are tried in the
\* order of the descriptor, each at most once; after a failed try the loop
\* stands at the next point, which its next step tries, or, after the last
\* point, the connect has failed with all-introduction-points-failed; that
\* error is returned only when every point was tried and failed; and a try
\* that succeeded is the last one.
C23_IntroPointsInOrder ==
    /\ [](/\ \A k \in 1 .. Len(tried) : tried[k] = k - 1
          /\ Len(tried) <= IntroPoints
          /\ Len(triedErr) \in {Len(tried) - 1, Len(tried)}
          /\ LastTryFailed =>
                \/ opc = "loop" /\ ipIdx = Len(tried)
                \/ /\ opc = "returned"
                   /\ oret = "all introduction points failed"
                   /\ Len(tried) = IntroPoints
          /\ oret = "all introduction points failed" =>
                /\ Len(tried) = IntroPoints
                /\ Len(triedErr) = IntroPoints
                /\ \A k \in 1 .. IntroPoints : triedErr[k] # ""
          /\ \A k \in 1 .. Len(triedErr) :
                triedErr[k] = "" => k = Len(tried))
    /\ [][(opc = "loop" /\ ipIdx < IntroPoints) =>
            tried' = Append(tried, ipIdx)]_vars

\* The first introduction point failed and the last of MaxIntroPoints
\* succeeded.
C23_Witness ==
    /\ IntroPoints = MaxIntroPoints
    /\ Len(tried) = IntroPoints
    /\ Len(triedErr) = IntroPoints
    /\ triedErr[1] = "expected INTRODUCE_ACK"
    /\ triedErr[IntroPoints] = ""
    /\ oret = "ok"

\* C24 (tryIntroPoint): an attempt waits for RENDEZVOUS2 only after it has
\* received, on the intro circuit, a RELAY_INTRODUCE_ACK whose data holds
\* the two status bytes and has them both 0.
C24_AckStatusZero ==
    opc = "rendezvous2" =>
        /\ ackCell.relayCmd = RelayIntroduceAck
        /\ Len(ackCell.data) >= 2
        /\ ackCell.data[1] = 0
        /\ ackCell.data[2] = 0

\* C25 (tryIntroPoint, ConnectOnionService): the rendezvous circuit has
\* three hops from its building on and gains a hop only in an attempt that
\* received RELAY_RENDEZVOUS2 on it and whose CompleteRendezvous verified
\* AUTH, which then returns nil; a cell with another command ends the
\* attempt with an error and adds no hop, as does every failed attempt; a
\* connect that succeeds has four hops; and stream.Begin is called on four
\* hops only.
C25_HopAfterVerifiedRendezvous2 ==
    /\ [](/\ rendHops \in {0, 3, 4}
          /\ rendHops = 4 =>
                /\ rend2Cell.relayCmd = RelayRendezvous2
                /\ rend2Cell.data = "good"
                /\ verified
                /\ Len(triedErr) = Len(tried)
                /\ triedErr[Len(triedErr)] = ""
          /\ oret = "ok" => rendHops = 4
          /\ beginHops \in {0, 4}
          /\ opc = "begin" => rendHops = 4)
    /\ [][rendHops' # rendHops =>
            \/ rendHops = 0 /\ rendHops' = 3 /\ opc = "resolve"
            \/ rendHops = 3 /\ rendHops' = 4 /\ opc = "rendezvous2"]_vars
    /\ [][(opc = "rendezvous2" /\ rend2Cell' # rend2Cell
           /\ rend2Cell'.relayCmd # RelayRendezvous2) =>
            /\ triedErr' = Append(triedErr, "expected RENDEZVOUS2")
            /\ rendHops' = rendHops]_vars
    /\ [][(Len(triedErr') > Len(triedErr)
           /\ triedErr'[Len(triedErr')] # "") => rendHops' = rendHops]_vars

\* A connect that succeeded at its second introduction point, the first
\* having received another cell than RENDEZVOUS2.
C25_Witness ==
    /\ oret = "ok"
    /\ rendHops = 4
    /\ beginHops = 4
    /\ Len(triedErr) = 2
    /\ triedErr[1] = "expected RENDEZVOUS2"

\* C26 (ConnectOnionService, onionStream.Close): the link of every intro
\* circuit is closed when its tryIntroPoint has returned, so all of them are
\* when the connect returns; after an error the rendezvous link is not open;
\* after success it is open as long as the returned stream is, and closed
\* once that stream is closed.
C26_LinksClosedAtReturn ==
    /\ \A k \in 1 .. Len(introLinks) :
        (k < Len(introLinks) \/ Len(triedErr) = Len(tried)) =>
            introLinks[k] = "closed"
    /\ opc = "returned" =>
        /\ \A k \in 1 .. Len(introLinks) : introLinks[k] = "closed"
        /\ oret # "ok" => rendLink \in {"none", "closed"} /\ ~streamOpen
        /\ oret = "ok" =>
            rendLink = (IF streamOpen THEN "open" ELSE "closed")
        /\ (rendHops > 0 /\ oret # "ok") => rendLink = "closed"

\* A connect that built MaxIntroPoints intro circuits and succeeded, its
\* stream closed afterwards.
C26_Witness ==
    /\ opc = "returned"
    /\ oret = "ok"
    /\ ~streamOpen
    /\ rendLink = "closed"
    /\ Len(introLinks) = MaxIntroPoints

\* ----------------------------------------------- link.Handshake, its steps
\* What the steps of Handshake leave alone.
handshakeQuiet == <<circuitVars, streamVars, besideHandshake, CircIDs, cpc, circID,
                    attempts, createErr, circuits, createsLeft, handshakesLeft>>

\* The commands of the cells a relay may send during the handshake.
HandshakeCells == {CmdPadding, CmdVPadding, CmdCerts, CmdAuthChallenge,
                   CmdNetInfo, CmdCreated2}

\* The version lists a relay may offer in its VERSIONS cell.
ServerVersions == {{}, {3}, {3, 4}, {4, 5}}

\* negotiateVersion: the highest of 4 and 5 that the server offers, else 0.
negotiateVersion(serverVersions) ==
    IF 5 \in serverVersions THEN 5
    ELSE IF 4 \in serverVersions THEN 4
    ELSE 0

\* Handshake returns err ("ok": the Link); every error return after the TLS
\* handshake closes the connection first.
HandshakeReturn(err) ==
    /\ hpc' = "returned"
    /\ hret' = err
    /\ conn' = IF err = "ok" \/ conn = "none" THEN conn ELSE "closed"

\* Handshake is called: net.DialTimeout, SetDeadline of 30 seconds,
\* tlsConn.Handshake, the peer certificate.
HandshakeDial ==
    /\ hpc = "idle"
    /\ handshakesLeft > 0
    /\ handshakesLeft' = handshakesLeft - 1
    /\ \E dialed \in Outcomes, tls \in Outcomes, cert \in Outcomes :
        IF ~dialed
        THEN /\ hpc' = "returned"
             /\ hret' = "tcp dial"
             /\ UNCHANGED <<conn, deadline>>
        ELSE /\ deadline' = DeadlineSeconds
             /\ IF tls /\ cert
                THEN /\ hpc' = "versions"
                     /\ conn' = "open"
                     /\ UNCHANGED hret
                ELSE /\ hpc' = "returned"
                     /\ hret' = IF tls THEN "no peer TLS certificate"
                                ELSE "tls handshake"
                     /\ conn' = "closed"
    /\ UNCHANGED <<circuitVars, streamVars, besideHandshake, CircIDs, cpc, circID,
                   attempts, createErr, circuits, createsLeft, negotiated,
                   padSkipped, hrecv, hsent>>

\* Step 2: the VERSIONS cell is written, the server's is read, the version
\* is negotiated.
HandshakeVersions ==
    /\ hpc = "versions"
    /\ \E sent \in Outcomes, read \in Outcomes, offered \in ServerVersions :
        IF ~sent
        THEN /\ HandshakeReturn("send VERSIONS")
             /\ UNCHANGED <<hsent, negotiated>>
        ELSE /\ hsent' = Append(hsent, CmdVersions)
             /\ IF ~read
                THEN /\ HandshakeReturn("read VERSIONS")
                     /\ UNCHANGED negotiated
                ELSE /\ negotiated' = negotiateVersion(offered)
                     /\ IF negotiateVersion(offered) = 0
                        THEN HandshakeReturn("no common link protocol version")
                        ELSE /\ hpc' = "certs"
                             /\ UNCHANGED <<hret, conn>>
    /\ UNCHANGED <<handshakeQuiet, deadline, padSkipped, hrecv>>

\* A readExpectedCell that takes whatever cell comes.
CellAccepted(cmd, expected) == TRUE

\* readExpectedCell's test of a cell that is not padding.
CellExpected(cmd, expected) == cmd = expected

\* The command Handshake waits for at each of steps 3, 4 and 5.
ExpectedAt(place) ==
    IF place = "certs" THEN CmdCerts
    ELSE IF place = "auth_challenge" THEN CmdAuthChallenge
    ELSE CmdNetInfo

\* The step after each of them.
PlaceAfter(place) ==
    IF place = "certs" THEN "auth_challenge"
    ELSE IF place = "auth_challenge" THEN "netinfo"
    ELSE "send_netinfo"

\* Steps 3, 4 and 5, one turn of readExpectedCell's loop: a cell is read;
\* PADDING and VPADDING are skipped, any other command than the expected
\* one is an error; CERTS is validated.
HandshakeRead ==
    /\ hpc \in {"certs", "auth_challenge", "netinfo"}
    /\ IF padSkipped >= MaxExpectedReads
       THEN /\ HandshakeReturn("read " \o hpc \o ": too many padding cells")
            /\ UNCHANGED <<padSkipped, hrecv>>
       ELSE \/ /\ HandshakeReturn("read " \o hpc)
               /\ UNCHANGED <<padSkipped, hrecv>>
            \/ \E cmd \in HandshakeCells, valid \in Outcomes :
                IF cmd \in {CmdPadding, CmdVPadding}
                THEN /\ padSkipped' = padSkipped + 1
                     /\ UNCHANGED <<hpc, hret, conn, hrecv>>
                ELSE /\ hrecv' = Append(hrecv, cmd)
                     /\ padSkipped' = 0
                     /\ IF ~CellExpected(cmd, ExpectedAt(hpc))
                        THEN HandshakeReturn("read " \o hpc \o ": expected command")
                        ELSE IF hpc = "certs" /\ ~valid
                        THEN HandshakeReturn("validate CERTS")
                        ELSE /\ hpc' = PlaceAfter(hpc)
                             /\ UNCHANGED <<hret, conn>>
    /\ UNCHANGED <<handshakeQuiet, deadline, negotiated, hsent>>

\* Step 6: the relay's address is parsed, the client's NETINFO is written,
\* the deadline is cleared and the Link returned.
HandshakeNetInfo ==
    /\ hpc = "send_netinfo"
    /\ \E addr \in Outcomes, sent \in Outcomes :
        IF ~addr
        THEN /\ HandshakeReturn("parse relay addr")
             /\ UNCHANGED <<hsent, deadline>>
        ELSE IF ~sent
        THEN /\ HandshakeReturn("send NETINFO")
             /\ UNCHANGED <<hsent, deadline>>
        ELSE /\ hsent' = Append(hsent, CmdNetInfo)
             /\ deadline' = NoDeadline
             /\ HandshakeReturn("ok")
    /\ UNCHANGED <<handshakeQuiet, negotiated, padSkipped, hrecv>>

\* One link handshake.
InitLinkHandshake ==
    /\ InitLink(0)
    /\ InitStream(0, 0)
    /\ callsLeft = 0
    /\ earlyLeft = 0
    /\ inboundCap = 0
    /\ InitOnion(0)
    /\ InitHandshake(1)
    /\ InitNtor(0)
    /\ InitApart

NextLinkHandshake ==
    \/ HandshakeDial
    \/ HandshakeVersions
    \/ HandshakeRead
    \/ HandshakeNetInfo

SpecLinkHandshake == InitLinkHandshake /\ [][NextLinkHandshake]_vars

\* CERTS, AUTH_CHALLENGE, NETINFO.
HandshakeOrder == <<CmdCerts, CmdAuthChallenge, CmdNetInfo>>

\* C27 (Handshake, readExpectedCell): the cells read after VERSIONS that
\* are not padding are CERTS, AUTH_CHALLENGE, NETINFO in this order as far
\* as they go, but for a last one that is out of order, at which Handshake
\* has failed and closed the connection; Handshake succeeds only with all
\* three read in order, on an open connection; it writes VERSIONS and then,
\* only after the relay's NETINFO was read, NETINFO, and nothing else, so
\* never AUTHENTICATE; every failure after the connection was made leaves
\* it closed.
C27_HandshakeCellOrder ==
    /\ [](/\ Len(hrecv) <= Len(HandshakeOrder)
          /\ \A k \in 1 .. Len(hrecv) :
                hrecv[k] # HandshakeOrder[k] =>
                    /\ k = Len(hrecv)
                    /\ hpc = "returned"
                    /\ hret \notin {"", "ok"}
                    /\ conn = "closed"
          /\ hret = "ok" => hrecv = HandshakeOrder /\ conn = "open"
          /\ hret \notin {"", "ok"} => conn \in {"none", "closed"}
          /\ Len(hsent) <= 2
          /\ \A k \in 1 .. Len(hsent) :
                hsent[k] = (IF k = 1 THEN CmdVersions ELSE CmdNetInfo)
          /\ Len(hsent) = 2 => hrecv = HandshakeOrder)
    /\ [][(Len(hrecv') > Len(hrecv)
           /\ hrecv'[Len(hrecv')] # ExpectedAt(hpc)) =>
            (hpc' = "returned" /\ hret' \notin {"", "ok"} /\ conn' = "closed")]_vars

\* A handshake that read the three cells in order and succeeded.
C27_Witness ==
    /\ hret = "ok"
    /\ hrecv = HandshakeOrder
    /\ hsent = <<CmdVersions, CmdNetInfo>>
    /\ conn = "open"

\* --------------------------------------------- Complete of ntor, hs-ntor
\* The server's reply, by what Complete makes of it: a Y that gives the
\* all-zeros point, an AUTH that does not verify, a reply on which the key
\* derivation fails, a good reply.
ServerReplies == {"zero point", "bad auth", "kdf", "good"}

\* HandshakeState.Complete on a state with private scalar x: the error ("":
\* the KeyMaterial) and x as it is left.  clear(hs.x[:]) stands before the
\* last return only.
Complete(x, serverData) ==
    IF serverData = "zero point"
    THEN [err |-> "x*Y produced all-zeros point", x |-> x]
    ELSE IF serverData = "bad auth"
    THEN [err |-> "AUTH verification failed", x |-> x]
    ELSE IF serverData = "kdf"
    THEN [err |-> "HKDF key derivation", x |-> x]
    ELSE [err |-> "", x |-> ZeroScalar]

\* HsNtorClientCompleteHandshake on a state with private scalar x: the error
\* ("": the key seed) and x as it is left.  The zeroing loop stands before
\* the last return only; there is no key derivation that can fail.
HsNtorClientCompleteHandshake(x, serverData) ==
    IF serverData = "zero point"
    THEN [err |-> "EXP(Y,x) produced all-zeros point", x |-> x]
    ELSE IF serverData = "bad auth"
    THEN [err |-> "hs-ntor AUTH verification failed", x |-> x]
    ELSE [err |-> "", x |-> ZeroScalar]

\* What the steps of the ntor handshakes leave alone.
ntorQuiet == <<circuitVars, streamVars, linkVars, besideNtor>>

\* hs.Complete(serverData) is called and returns.
NtorComplete ==
    /\ completeRet = ""
    /\ completesLeft > 0
    /\ completesLeft' = completesLeft - 1
    /\ \E serverData \in ServerReplies :
        LET r == Complete(hs_x, serverData)
        IN  /\ hs_x' = r.x
            /\ completeRet' = IF r.err = "" THEN "ok" ELSE r.err
    /\ UNCHANGED <<ntorQuiet, state_x, hsCompleteRet>>

\* hs.Close(), which Create and Extend defer: clear(hs.x[:]).
NtorClose ==
    /\ hs_x # ZeroScalar
    /\ hs_x' = ZeroScalar
    /\ UNCHANGED <<ntorQuiet, completeRet, state_x, hsCompleteRet, completesLeft>>

\* HsNtorClientCompleteHandshake(state, serverPK, auth) is called and
\* returns.
HsNtorComplete ==
    /\ hsCompleteRet = ""
    /\ completesLeft > 0
    /\ completesLeft' = completesLeft - 1
    /\ \E serverData \in ServerReplies \ {"kdf"} :
        LET r == HsNtorClientCompleteHandshake(state_x, serverData)
        IN  /\ state_x' = r.x
            /\ hsCompleteRet' = IF r.err = "" THEN "ok" ELSE r.err
    /\ UNCHANGED <<ntorQuiet, hs_x, completeRet>>

\* One ntor and one hs-ntor handshake state, each completed at most once.
InitComplete ==
    /\ InitLink(0)
    /\ InitStream(0, 0)
    /\ callsLeft = 0
    /\ earlyLeft = 0
    /\ inboundCap = 0
    /\ InitOnion(0)
    /\ InitHandshake(0)
    /\ InitNtor(2)
    /\ InitApart

NextComplete ==
    \/ NtorComplete
    \/ NtorClose
    \/ HsNtorComplete

SpecComplete == InitComplete /\ [][NextComplete]_vars

\* C28 (Complete, HsNtorClientCompleteHandshake): the step in which either
\* of them returns, with success or with an error, leaves the private
\* scalar x of its handshake state zeroed.
C28_ScalarZeroedAtReturn ==
    [][/\ completeRet' # completeRet => hs_x' = ZeroScalar
       /\ hsCompleteRet' # hsCompleteRet => state_x' = ZeroScalar]_vars

\* ------------------------------------------------- the bytes Write sends
\* The caller's buffer p of n bytes: every byte named by its place in p.
Buffer(n) == [i \in 1 .. n |-> i % 251]

\* The data of one chunk that Write handed to SendRelay: a slice of p.
ChunkBytes(size, c) == SubSeq(Buffer(size), c.off + 1, c.off + c.len)

\* The data of the RELAY_DATA cells of one Write, in the order sent.
RECURSIVE Sent(_, _)
Sent(size, log) ==
    IF log = << >>
    THEN << >>
    ELSE Sent(size, SubSeq(log, 1, Len(log) - 1))
            \o ChunkBytes(size, log[Len(log)])

\* Write calls that split buffers of every length around a chunk's end, on a
\* stream whose stream-level window runs out within the run.
InitWrite ==
    /\ InitCircuitUnderStream
    /\ InitStreamLens(0, 0, 0, 0, RaggedChunks, SentBefore)

NextWrite ==
    \/ WriteCall
    \/ WriteChunk
    \/ Close

SpecWrite == InitWrite /\ [][NextWrite]_vars

\* C30 (Stream.Write, encryptRelayLocked): every chunk that Write sends as a
\* RELAY_DATA cell has at least 1 and at most 498 bytes, each RELAY_DATA cell
\* sent is one more chunk, and encryptRelayLocked refuses every payload of
\* more than 498 bytes; the chunks sent, put together in the order sent, are
\* the first total bytes of the caller's buffer, total being the count that
\* Write returns, and total is never more than the buffer holds.
C30_WriteSendsBufferInChunks ==
    /\ [](/\ \A i \in 1 .. Len(wlog) : wlog[i].len \in 1 .. MaxRelayDataLen
          /\ \A dlen \in MaxRelayDataLen + 1 .. RelayPayloadLen :
                encryptRelayLocked(Hops, RelayData, ID, dlen).err
                    = "relay data too large"
          /\ wtotal <= wsize
          /\ Sent(wsize, wlog) = SubSeq(Buffer(wsize), 1, wtotal))
    /\ [][dataSent' # dataSent => Len(wlog') = Len(wlog) + 1]_vars

\* A Write of one byte more than the longest buffer of whole chunks has
\* returned nil: the last of its chunks carried that one byte.
C30_Witness ==
    /\ wpc = "idle"
    /\ wret = ""
    /\ wsize = MaxChunks * MaxRelayDataLen + 1
    /\ wtotal = wsize
    /\ Len(wlog) = MaxChunks + 1
    /\ wlog[Len(wlog)].len = 1

\* ------------------------------------------------- the cell reader's cap
\* The commands a peer puts in a header: fixed-length ones, VERSIONS and
\* three of the commands from 128 up.
HeaderCmds == {CmdRelay, CmdVersions, CmdNetInfo, CmdVPadding, CmdCerts, 255}

\* The lengths it declares: none, the smallest, the cap, the first above it
\* and the largest a uint16 holds.
DeclaredLens == {0, 1, MaxVarPayloadLen, MaxVarPayloadLen + 1, 65535}

\* The bytes the connection delivers before it ends: none, the header, the
\* header and the length, a fixed cell, or more than any cell has.
Delivered == {0, 5, 7, FixedCellLen, 70000}

\* What stands beside the cell reader.
besideReader == <<circuitVars, streamVars, linkVars, onionVars,
                  handshakeVars, ntorVars, hsdirVars, muxVars>>

\* cr.ReadCell() is called and returns.
CallReadCell ==
    /\ readsLeft > 0
    /\ readsLeft' = readsLeft - 1
    /\ \E cmd \in HeaderCmds, pLen \in DeclaredLens, have \in Delivered :
        rdRet' = [fn |-> "ReadCell", cmd |-> cmd, pLen |-> pLen, have |-> have,
                  res |-> Reader_ReadCell(cmd, pLen, have)]
    /\ UNCHANGED besideReader

\* cr.ReadVersionsCell() is called and returns.
CallReadVersionsCell ==
    /\ readsLeft > 0
    /\ readsLeft' = readsLeft - 1
    /\ \E cmd \in HeaderCmds, pLen \in DeclaredLens, have \in Delivered :
        rdRet' = [fn |-> "ReadVersionsCell", cmd |-> cmd, pLen |-> pLen,
                  have |-> have, res |-> Reader_ReadVersionsCell(cmd, pLen, have)]
    /\ UNCHANGED besideReader

\* A connection from which MaxReads cells are read.
InitRead ==
    /\ InitLink(0)
    /\ InitStream(0, 0)
    /\ callsLeft = 0
    /\ earlyLeft = 0
    /\ inboundCap = 0
    /\ InitOnion(0)
    /\ InitHandshake(0)
    /\ InitNtor(0)
    /\ InitReader(MaxReads)
    /\ InitHSDir(0)
    /\ InitMux(0)

NextRead ==
    \/ CallReadCell
    \/ CallReadVersionsCell

SpecRead == InitRead /\ [][NextRead]_vars

\* The read got as far as the declared length of a variable-length cell.
LengthDeclared(r) ==
    \/ r.fn = "ReadCell" /\ IsVariableLength(r.cmd) /\ r.have >= 7
    \/ r.fn = "ReadVersionsCell" /\ r.cmd = CmdVersions /\ r.have >= 5

\* C31 (Reader.ReadCell, Reader.ReadVersionsCell): a read that meets a
\* variable-length cell whose declared payload length is above 10 000 returns
\* an error, makes no Cell for it and asks the connection for none of its
\* payload.
C31_OversizedVarCellRefused ==
    (LengthDeclared(rdRet) /\ rdRet.pLen > MaxVarPayloadLen) =>
        /\ rdRet.res.err # ""
        /\ rdRet.res.made = 0
        /\ rdRet.res.asked = 0

\* ---------------------------------------------- Begin with every id live
\* Begin has returned a stream for each of the ids 1 .. 65535 on the one
\* circuit and all of them are live; the counter has just passed 0xFFFF.
\* Begin is called MaxBeginCalls times more, and elsewhere in the process.
InitBeginFull ==
    /\ InitCircuitUnderStream
    /\ InitStreamAt(0, 0, MaxBeginCalls, MaxElsewhere, WholeChunks, 0,
                    MaxStreamID + 1, 1 .. MaxStreamID)

NextBeginFull ==
    \/ BeginElsewhere
    \/ \E t \in Tasks :
        \/ BeginAlloc(t)
        \/ BeginSend(t)
        \/ BeginWait(t)

SpecBeginFull == InitBeginFull /\ [][NextBeginFull]_vars

\* The counter has wrapped and every id from 1 to 65535 is that of a live
\* stream.
NoFreeStreamID ==
    /\ nextStreamID > MaxStreamID
    /\ \A id \in 1 .. MaxStreamID : BagIn(id, live)

\* C32 (Begin): while the counter has wrapped and no id is free, no Begin
\* gets as far as sending RELAY_BEGIN or waiting for its reply, and every
\* Begin that returns returns "stream ID space exhausted".
C32_BeginFailsWithoutFreeID ==
    /\ [](NoFreeStreamID => \A t \in Tasks : bpc[t] \notin {"send", "wait"})
    /\ [][\A t \in Tasks :
            (NoFreeStreamID /\ bret'[t] # bret[t]) =>
                bret'[t].err = "stream ID space exhausted"]_vars

\* ----------------------------------------------------------- SelectHSDirs
\* relayIndex of the relay at place i of the consensus: a hash, so no two
\* relays share one and the order of the indices is not that of the places.
relayIndex(i) == IF i % 2 = 1 THEN i + 1 ELSE i - 1

\* The relay at place i: one that has the three flags and an Ed25519
\* identity, or one that lacks one of the four.
Relay(i, ok) ==
    [HSDir |-> ok \/ i % 4 # 0,
     Running |-> ok \/ i % 4 # 1,
     Valid |-> ok \/ i % 4 # 2,
     HasEd25519 |-> ok \/ i % 4 # 3,
     Index |-> relayIndex(i)]

\* The test of the first loop: the relays that go on the ring.
OnRing(r) == r.HSDir /\ r.Running /\ r.Valid /\ r.HasEd25519

\* sort.Slice(ring, ...): the relays of the set places by ascending index.
RECURSIVE SortByIndex(_, _)
SortByIndex(c, places) ==
    IF places = {}
    THEN << >>
    ELSE LET first == CHOOSE i \in places :
                        \A j \in places : c[i].Index <= c[j].Index
         IN  <<first>> \o SortByIndex(c, places \ {first})

\* sort.Search(len(ring), ...): the first position (from 0) whose relay has
\* an index of at least svc, len(ring) when there is none.
Search(c, rg, svc) ==
    IF \E k \in 1 .. Len(rg) : c[rg[k]].Index >= svc
    THEN (CHOOSE k \in 1 .. Len(rg) :
            /\ c[rg[k]].Index >= svc
            /\ \A j \in 1 .. k - 1 : c[rg[j]].Index < svc) - 1
    ELSE Len(rg)

\* An inner loop that takes a relay whether or not it was selected before.
NeverSelected(sel, r) == FALSE

\* selected[r].
AlreadySelected(sel, r) == r \in sel

\* What stands beside SelectHSDirs.
besideHSDir == <<circuitVars, streamVars, linkVars, onionVars,
                 handshakeVars, ntorVars, readerVars, muxVars>>

\* SelectHSDirs returns.
SelectReturn(err, res) ==
    /\ hdpc' = "idle"
    /\ hdRet' = [called |-> TRUE, err |-> err, result |-> res]

\* SelectHSDirs is called: the test of srv, the ring built and sorted, and
\* the first replica's start.
SelectCall ==
    /\ hdpc = "idle"
    /\ selectsLeft > 0
    /\ selectsLeft' = selectsLeft - 1
    /\ \E n \in 0 .. MaxRelays, srvLen \in {0, 32} :
       \E ok \in [1 .. n -> BOOLEAN],
          svc \in [1 .. hsdirNReplicas -> 0 .. MaxRelays + 2] :
        LET c == [i \in 1 .. n |-> Relay(i, ok[i])]
            rg == SortByIndex(c, {i \in 1 .. n : OnRing(c[i])})
        IN  /\ consensus' = c
            /\ svcIdx' = svc
            /\ selected' = {}
            /\ result' = << >>
            /\ count' = 0
            /\ offset' = 0
            /\ IF srvLen = 0
               THEN /\ SelectReturn("no shared random value available", << >>)
                    /\ ring' = << >>
                    /\ replica' = 0
                    /\ start' = 0
               ELSE IF Len(rg) = 0
               THEN /\ SelectReturn("no HSDir relays in consensus", << >>)
                    /\ ring' = << >>
                    /\ replica' = 0
                    /\ start' = 0
               ELSE /\ hdpc' = "scan"
                    /\ ring' = rg
                    /\ replica' = 1
                    /\ start' = Search(c, rg, svc[1])
                    /\ UNCHANGED hdRet
    /\ UNCHANGED besideHSDir

\* SelectHSDirs, one turn of its inner loop; when the loop ends, the next
\* replica's start, or the return after the last replica.
SelectTurn ==
    /\ hdpc = "scan"
    /\ offset < MaxTurns
    /\ LET pos == (start + offset) % Len(ring)
           r == ring[pos + 1]
       IN  IF AlreadySelected(selected, r)
           THEN /\ offset' = offset + 1
                /\ UNCHANGED <<hdpc, replica, start, count, selected, result,
                               hdRet>>
           ELSE LET sel == selected \cup {r}
                    res == Append(result, r)
                    ends == \/ count + 1 >= hsdirSpreadFetch
                            \/ Cardinality(sel) >= Len(ring)
                IN  /\ selected' = sel
                    /\ result' = res
                    /\ IF ~ends
                       THEN /\ count' = count + 1
                            /\ offset' = offset + 1
                            /\ UNCHANGED <<hdpc, replica, start, hdRet>>
                       ELSE IF replica < hsdirNReplicas
                       THEN /\ replica' = replica + 1
                            /\ start' = Search(consensus, ring, svcIdx[replica + 1])
                            /\ count' = 0
                            /\ offset' = 0
                            /\ UNCHANGED <<hdpc, hdRet>>
                       ELSE /\ SelectReturn(IF Len(res) = 0
                                            THEN "no HSDirs selected" ELSE "",
                                            res)
                            /\ count' = count + 1
                            /\ offset' = offset + 1
                            /\ UNCHANGED <<replica, start>>
    /\ UNCHANGED <<consensus, svcIdx, ring, selectsLeft>>
    /\ UNCHANGED besideHSDir

\* One call of SelectHSDirs on any consensus of up to MaxRelays relays.
InitSelect ==
    /\ InitLink(0)
    /\ InitStream(0, 0)
    /\ callsLeft = 0
    /\ earlyLeft = 0
    /\ inboundCap = 0
    /\ InitOnion(0)
    /\ InitHandshake(0)
    /\ InitNtor(0)
    /\ InitReader(0)
    /\ InitHSDir(1)
    /\ InitMux(0)

NextSelect ==
    \/ SelectCall
    \/ SelectTurn

SpecSelect == InitSelect /\ [][NextSelect]_vars

\* The ring from position s0 (counted from 0) once around.
Around(rg, s0) ==
    [k \in 1 .. Len(rg) |-> rg[((s0 + k - 1) % Len(rg)) + 1]]

\* The first n relays of seq that are not in sel, in the order of seq.
RECURSIVE FirstNew(_, _, _)
FirstNew(seq, sel, n) ==
    IF n = 0 \/ seq = << >>
    THEN << >>
    ELSE IF Head(seq) \in sel
         THEN FirstNew(Tail(seq), sel, n)
         ELSE <<Head(seq)>> \o FirstNew(Tail(seq), sel, n - 1)

\* The relays of a sequence.
Range(seq) == {seq[k] : k \in 1 .. Len(seq)}

\* The picks of replica rep when the relays in sel were selected before:
\* the scan starts at the first relay whose index is at least the service
\* index, which is as many places in as there are relays with a lower one
\* (past the last one: at the first).
Picks(c, rg, svc, sel) ==
    FirstNew(Around(rg, Cardinality({k \in 1 .. Len(rg) : c[rg[k]].Index < svc})),
             sel, hsdirSpreadFetch)

\* C33 (SelectHSDirs): the list returned holds no relay twice, has at most
\* 6 entries, and holds only relays with HSDir, Running, Valid and an Ed25519
\* identity; the ring is those relays by ascending index, and the list is
\* what replica 1 picks, the first 3 relays at or after its service index
\* with wrap-around, followed by what replica 2 picks, the first 3 relays
\* not picked before at or after its service index.
C33_HSDirsSelected ==
    (hdRet.called /\ hdRet.err = "") =>
        LET res == hdRet.result
            first == Picks(consensus, ring, svcIdx[1], {})
            second == Picks(consensus, ring, svcIdx[2], Range(first))
        IN  /\ \A i, j \in 1 .. Len(res) : res[i] = res[j] => i = j
            /\ Len(res) <= hsdirNReplicas * hsdirSpreadFetch
            /\ \A i \in 1 .. Len(res) : OnRing(consensus[res[i]])
            /\ Range(ring) = {i \in 1 .. Len(consensus) : OnRing(consensus[i])}
            /\ \A i, j \in 1 .. Len(ring) :
                    i < j => consensus[ring[i]].Index < consensus[ring[j]].Index
            /\ res = first \o second

\* A list was returned from a consensus that holds a relay without the
\* flags: replica 2 started on a relay that replica 1 had selected, went
\* around the end of the ring and picked relays of its own.
C33_Witness ==
    /\ hdRet.called
    /\ hdRet.err = ""
    /\ Len(hdRet.result) > hsdirSpreadFetch
    /\ Len(ring) < Len(consensus)
    /\ ring[(start % Len(ring)) + 1]
            \in Range(SubSeq(hdRet.result, 1, hsdirSpreadFetch))
    /\ start + offset > Len(ring)

\* C36 (SelectHSDirs): at the head of the inner loop a relay of the ring is
\* still to be selected, so the loop comes to a relay it takes and ends.
C36_ScanFindsNewRelay ==
    hdpc = "scan" => \E k \in 1 .. Len(ring) : ring[k] \notin selected

\* --------------------------------------------- Extend refused by the budget
\* C34 (Circuit.Extend): a call of Extend that returns "RELAY_EARLY budget
\* exhausted" writes no cell and leaves every hop's forward keystream
\* position kf and forward running digest df as they were before the call.
C34_RefusedExtendLeavesForwardState ==
    [][\A t \in Tasks :
         (ExtendEncrypt(t) /\ refused' > refused)
             => /\ linkOut' = linkOut
                /\ \A k \in 1 .. Len(Hops) :
                       /\ Hops'[k].kf = Hops[k].kf
                       /\ Hops'[k].df = Hops[k].df]_vars

\* ------------------------------------- a false zero before the right hop
\* C35 (decryptRelayLocked): a cell of the relay of hop j that shows a zero
\* "recognized" field at an earlier hop i < j, where its digest cannot
\* match, is recognized at hop j and returned with the relay command, the
\* stream id and the data length the relay gave it.
C35_FalseZeroKeepsPayload ==
    \A t \in Tasks :
        (HoldsRead(t) /\ inCell[t].cmd = CmdRelay) =>
            LET c == inCell[t]
                j == c.origin
            IN  (/\ IsPlain(Hops, c, j)
                 /\ c.dlen <= MaxRelayDataLen
                 /\ \E i \in c.zeroAt : i < j)
                    => decryptRelayLocked(Hops, c).ret =
                           [err |-> "", hop |-> j, relayCmd |-> c.relayCmd,
                            streamID |-> c.streamID, dlen |-> c.dlen,
                            reason |-> 0]

\* ------------------------------------- Read and Write on one stream at once
\* Server.handleConn runs io.Copy(torStream, conn) and io.Copy(conn,
\* torStream) in two goroutines: Write and Read of one Stream run at once,
\* and neither takes a lock around s.CircWindow and s.StreamWindow.  Write's
\* s.CircWindow-- and s.StreamWindow-- are each a read of the field and a
\* write of the value read less one; Read's additions fall between them.

\* Stream.Write, one turn of its loop up to SendRelay, and the read of
\* s.CircWindow for the decrement that follows.
WriteSend ==
    /\ wpc = "writing"
    /\ LET chunk == ChunkLen(wleft)
       IN  IF WindowExhausted(CircWindow, StreamWindow)
           THEN /\ WriteReturn("send window exhausted")
                /\ UNCHANGED <<dataSent, linkBroken, wlog, wheld>>
           ELSE IF ChunkRefused(chunk)
           THEN /\ WriteReturn("send RELAY_DATA")
                /\ UNCHANGED <<dataSent, linkBroken, wlog, wheld>>
           ELSE \E ok \in WriteOutcomes :
                IF ~ok
                THEN /\ WriteReturn("send RELAY_DATA")
                     /\ linkBroken' = TRUE
                     /\ UNCHANGED <<dataSent, wlog, wheld>>
                ELSE /\ dataSent' = dataSent + 1
                     /\ wlog' = Append(wlog, [off |-> wsize - wleft, len |-> chunk])
                     /\ wheld' = CircWindow
                     /\ wpc' = "circ"
                     /\ UNCHANGED <<linkBroken, wleft, wret>>
    /\ UNCHANGED <<CircWindow, StreamWindow, wtotal, closed, endSent, endLog,
                   closeRet, wsize, dataInCap, sendmeCap, wlens>>
    /\ UNCHANGED <<readSide, linkVars, restVars, sendmeSide, orderSide, beginSide,
                   circuitQuiet>>

\* s.CircWindow--, the write; and the read of s.StreamWindow for the next
\* decrement.
WriteStoreCirc ==
    /\ wpc = "circ"
    /\ CircWindow' = wheld - 1
    /\ wheld' = StreamWindow
    /\ wpc' = "stream"
    /\ UNCHANGED <<StreamWindow, dataSent, linkBroken, wlog, wleft, wret, wtotal,
                   closed, endSent, endLog, closeRet, wsize, dataInCap, sendmeCap,
                   wlens>>
    /\ UNCHANGED <<readSide, linkVars, restVars, sendmeSide, orderSide, beginSide,
                   circuitQuiet>>

\* s.StreamWindow--, the write; total += len(chunk); p = p[len(chunk):].
WriteStoreStream ==
    /\ wpc = "stream"
    /\ LET chunk == ChunkLen(wleft)
           rest == Rest(wleft, chunk)
       IN  /\ StreamWindow' = wheld - 1
           /\ wheld' = 0
           /\ wtotal' = wtotal + chunk
           /\ wleft' = rest
           /\ wpc' = IF rest = 0 THEN "idle" ELSE "writing"
           /\ wret' = IF rest = 0 THEN "" ELSE wret
    /\ UNCHANGED <<CircWindow, dataSent, linkBroken, wlog, closed, endSent, endLog,
                   closeRet, wsize, dataInCap, sendmeCap, wlens>>
    /\ UNCHANGED <<readSide, linkVars, restVars, sendmeSide, orderSide, beginSide,
                   circuitQuiet>>

\* The two goroutines of handleConn on a stream that has sent SentBefore
\* cells: Write calls, and Read calls that meet the relay's SENDMEs.
InitRace ==
    /\ InitCircuitUnderStream
    /\ InitStreamLens(0, MaxSendmeIn, 0, 0, WholeChunks, SentBefore)

NextRace ==
    \/ WriteCall
    \/ WriteSend
    \/ WriteStoreCirc
    \/ WriteStoreStream
    \/ ReadCall
    \/ ReadCell

SpecRace == InitRace /\ [][NextRace]_vars

\* C37 (Stream.Read, Stream.Write): whenever neither Read nor Write is under
\* way, the circuit-level window is 1000 less the RELAY_DATA cells sent plus
\* 100 for every credit applied, and the stream-level window is 500 less the
\* RELAY_DATA cells sent plus 50 for every credit applied.
C37_NoWindowUpdateLost ==
    (wpc = "idle" /\ rpc = "idle") =>
        /\ CircWindow = initCircWindow - dataSent
                            + circSendMeWindow * (circSendmeIn + circSendmeOut)
        /\ StreamWindow = initStreamWindow - dataSent
                            + streamSendMeWindow * (streamSendmeIn + streamSendmeOut)

\* ------------------------------------------ several streams on one circuit
besideMux == <<circuitVars, streamVars, linkVars, onionVars, handshakeVars,
               ntorVars, readerVars, hsdirVars>>

\* Begin on the circuit: the relay answers RELAY_CONNECTED and the caller is
\* given a new Stream, or Begin returns an error and no stream.
MuxBegin ==
    /\ streamsLeft > 0
    /\ streamsLeft' = streamsLeft - 1
    /\ \E connected \in BOOLEAN :
        streams' = IF connected
                   THEN Append(streams, NewStream(Len(streams) + 1))
                   ELSE streams
    /\ UNCHANGED <<circCells, circSendmes, streamSendmes>>
    /\ UNCHANGED besideMux

\* Write's loop on stream s with left bytes still to send, n chunks sent:
\* each turn tests the windows of s, sends a chunk and lowers both.
RECURSIVE WriteLoop(_, _, _)
WriteLoop(s, left, n) ==
    IF left = 0
    THEN [stream |-> s, cells |-> n, err |-> ""]
    ELSE IF WindowExhausted(s.CircWindow, s.StreamWindow)
    THEN [stream |-> s, cells |-> n, err |-> "send window exhausted"]
    ELSE WriteLoop([s EXCEPT !.CircWindow = @ - 1, !.StreamWindow = @ - 1],
                   Rest(left, ChunkLen(left)), n + 1)

\* Stream.Write of BurstChunks whole chunks on the i-th stream, with a link
\* that takes every cell.
MuxWrite(i) ==
    /\ i \in 1 .. Len(streams)
    /\ LET w == WriteLoop(streams[i], BurstChunks * MaxRelayDataLen, 0)
       IN  /\ streams' = [streams EXCEPT ![i] = w.stream]
           /\ circCells' = circCells + w.cells
    /\ UNCHANGED <<circSendmes, streamSendmes, streamsLeft>>
    /\ UNCHANGED besideMux

\* Stream.Read on the i-th stream, one turn of its loop on a SENDME: a
\* circuit-level one raises the CircWindow of the stream that reads it, one
\* for its own id raises its StreamWindow, one for another id is dropped.
MuxRead(i) ==
    /\ i \in 1 .. Len(streams)
    /\ \E sid \in 0 .. Len(streams) :
        IF sid = 0
        THEN /\ circSendmes < MaxSendmeIn
             /\ circSendmes' = circSendmes + 1
             /\ streams' = [streams EXCEPT ![i].CircWindow = @ + circSendMeWindow]
             /\ UNCHANGED streamSendmes
        ELSE /\ streamSendmes < MaxSendmeIn
             /\ streamSendmes' = streamSendmes + 1
             /\ streams' = IF sid = streams[i].ID
                           THEN [streams EXCEPT
                                   ![i].StreamWindow = @ + streamSendMeWindow]
                           ELSE streams
             /\ UNCHANGED circSendmes
    /\ UNCHANGED <<circCells, streamsLeft>>
    /\ UNCHANGED besideMux

\* MaxStreams calls of Begin on one circuit; the streams returned are
\* written and read in any order.
InitStreams ==
    /\ InitLink(0)
    /\ InitStream(0, 0)
    /\ callsLeft = 0
    /\ earlyLeft = 0
    /\ inboundCap = 0
    /\ InitOnion(0)
    /\ InitHandshake(0)
    /\ InitNtor(0)
    /\ InitReader(0)
    /\ InitHSDir(0)
    /\ InitMux(MaxStreams)

NextStreams ==
    \/ MuxBegin
    \/ \E i \in 1 .. MaxStreams : MuxWrite(i)
    \/ \E i \in 1 .. MaxStreams : MuxRead(i)

SpecStreams == InitStreams /\ [][NextStreams]_vars

\* C38 (Begin, Stream.Write, Stream.Read): the RELAY_DATA cells sent on one
\* circuit, over all its streams, number at most 1000 plus 100 for each
\* circuit-level SENDME received on the circuit.
C38_CircuitWindowShared ==
    circCells <= initCircWindow + circSendMeWindow * circSendmes

\* -------------------------------------------------- ids claimed on a link
\* C40 (Create, Circuit.Destroy, Link.ReleaseCircID): outside a call of
\* Create every id in Link.CircIDs is the id of a circuit that Create has
\* returned and on which Destroy has not been called.
C40_ClaimedIdsAreLive == cpc = "idle" => CircIDs \subseteq circuits

\* ------------------------------------------ two circuits on one link
\* A cell that the link's relay sends for circuit circ, another circuit of
\* the link: a DESTROY cell, or a RELAY cell whose payload is under the
\* keys of that circuit.  The cells built above are the circuit's own.
OtherCircuitCell(cmd, circ, reason, zeroAt, id) ==
    [cmd |-> cmd, circID |-> circ, origin |-> 0, corrupt |-> TRUE,
     relayCmd |-> 0, streamID |-> 0, dlen |-> 0, digest |-> 0, ks |-> << >>,
     zeroAt |-> zeroAt, id |-> id, reason |-> reason]

OfOtherCircuit(c) == "circID" \in DOMAIN c /\ c.circID # FirstCircID

\* Circuit.ReceiveRelay, c.rmu.Lock() and c.Link.Reader.ReadCell(), when
\* the next cell on the link is one for another circuit that Create has
\* returned on it.
ReceiveRelayReadOther(t) ==
    /\ pc[t] \in {"rr_lock", "ex_rr_lock"}
    /\ rmu = Unlocked
    /\ \E circ \in circuits \ {FirstCircID} :
        \/ \E reason \in DestroyReasons :
            RecvGot(t, OtherCircuitCell(CmdDestroy, circ, reason, {}, NextInboundId))
        \/ \E zeroAt \in SUBSET (1 .. Len(Hops)) :
            RecvGot(t, OtherCircuitCell(CmdRelay, circ, 0, zeroAt, NextInboundId))
    /\ UNCHANGED <<wmu, Hops, RelayEarlySent, outCell, linkOut, linkBroken, relays,
                   inboundCap, callsLeft, earlyLeft, encLog, decLog, unlocked,
                   falseZeroAt>>
    /\ UNCHANGED <<streamVars, linkVars, restVars>>

\* A link on which Create makes further circuits while ReceiveRelay is called
\* on the first one.
InitShared ==
    /\ InitCircuitCreates(MaxCreates)
    /\ InitStream(0, 0)
    /\ callsLeft = MaxRecvCalls
    /\ earlyLeft = 0
    /\ inboundCap = MaxInbound

NextShared ==
    \/ CreateCall
    \/ CreateAlloc
    \/ CreateSend
    \/ CreateRead
    \/ \E t \in Tasks :
        \/ ReceiveRelayCall(t)
        \/ ReceiveRelayRead(t)
        \/ ReceiveRelayReadOther(t)
        \/ ReceiveRelayHandle(t)

SpecShared == InitShared /\ [][NextShared]_vars

\* C39 (Circuit.ReceiveRelay): a cell with the id of another circuit of the
\* link leaves the hops of the circuit as they are, and the ReceiveRelay
\* that read it goes on to the next cell instead of returning.
C39_OtherCircuitsCellsIgnored ==
    [][\A t \in Tasks :
         (HoldsRead(t) /\ pc'[t] # pc[t] /\ OfOtherCircuit(inCell[t]))
             => /\ Hops' = Hops
                /\ pc'[t] \in {"rr_lock", "ex_rr_lock"}]_vars

====
